---- MODULE Spec2Model ----
(***************************************************************************)
(* A model of dogear's two-way bookmark tree merger (src/src/merge.rs).    *)
(*                                                                         *)
(* The state is one Merger instance together with the two input trees it   *)
(* borrows.  merge() is one action: the recursive walk is the operator     *)
(* TwoWayMerge and the operators it calls, each translated from the        *)
(* method of the same name, threading the merger's mutable fields (and the *)
(* merged node that the method mutates through `&mut`) in a record.        *)
(* deletions() is a second action that records what the iterator yields.   *)
(***************************************************************************)
EXTENDS Integers, Sequences, FiniteSets, TLC

VARIABLES
    local_tree,     \* Merger::local_tree
    remote_tree,    \* Merger::remote_tree
    new_local_contents,   \* Merger::new_local_contents  (NoContents or a map)
    new_remote_contents,  \* Merger::new_remote_contents
    driver,         \* Merger::driver: invalid guid -> guid returned, or Fail
    matching_dupes_by_local_parent_guid,
    merged_guids,
    delete_locally,
    delete_remotely,
    structure_counts,
    merged_root,    \* what merge() returned: [ok, node, err]
    emitted,        \* what deletions() yielded, in order
    traced,         \* the pairs two_way_merge logged: "Item exists locally
                    \* as {} and remotely as {}"
    deferred,       \* the children the walk logged as kept for their newer
                    \* parent on the other side: <<side that won, guid>>
    relocated,      \* the orphans the walk logged as relocated:
                    \* <<side, orphan, guid of the merged node it went to>>
    first_merge,    \* what an earlier merger of the same trees, exchanged,
                    \* gave its caller
    pc              \* "new" -> "merged" | "failed" -> "iterated"

vars == <<local_tree, remote_tree, new_local_contents, new_remote_contents,
          driver, matching_dupes_by_local_parent_guid, merged_guids,
          delete_locally, delete_remotely, structure_counts, merged_root,
          emitted, traced, deferred, relocated,
          first_merge, pc>>

(***************************************************************************)
(* Bounds of the model.                                                    *)
(***************************************************************************)
\* Number of non-root guids the input trees draw their items from.
NumGuids == 3
\* The same, for the families of inputs that vary more attributes.
NumFlagGuids == 2
\* Ages range over 0..MaxAge (smaller is newer).
MaxAge == 1
\* The largest number of nodes of a tree that is merged with itself.
NumIdentityGuids == 4
\* The largest number of changed nodes of a tree of the largest inputs.
MaxChanged == 1

(***************************************************************************)
(* Guids.                                                                  *)
(***************************************************************************)
None == "none"          \* Option::None for a node or a guid
RootGuid == "root"
GuidNames == <<"A", "B", "C", "D", "E">>
FirstGuids(n) == {GuidNames[i] : i \in 1..n}
Guids == FirstGuids(NumGuids)

\* Guids for which Guid::valid() is false, and the fresh guids a driver
\* may hand out for them.
InvalidGuids == {"!I", "!J"}
FreshGuids == {"N1", "N2"}
Contents == {"k1", "k2"}
Valid(guid) == guid \notin InvalidGuids

(***************************************************************************)
(* The tree model (tree.rs is not part of the sources; this follows the    *)
(* data model of the specification).  A tree is its live nodes, keyed by   *)
(* guid, and its set of tombstones.                                        *)
(***************************************************************************)
Folder == "Folder"
Bookmark == "Bookmark"
Query == "Query"
Separator == "Separator"

Range(s) == {s[i] : i \in DOMAIN s}

HasNode(tree, guid) == guid \in DOMAIN tree.nodes
NodeForGuid(tree, guid) == tree.nodes[guid]
IsDeleted(tree, guid) == guid \in tree.deleted
TreeGuids(tree) == DOMAIN tree.nodes
TreeRoot(tree) == CHOOSE g \in DOMAIN tree.nodes : tree.nodes[g].parent = None

IsRoot(node) == node.parent = None
IsFolder(node) == node.kind = Folder
IsSyncable(node) == node.syncable
IsUserContentRoot(node) == node.user_content_root
Diverged(node) == node.diverged
HasCompatibleKind(a, b) ==
    \/ a.kind = b.kind
    \/ {a.kind, b.kind} = {Bookmark, Query}

RECURSIVE Level(_, _)
Level(tree, guid) ==
    IF tree.nodes[guid].parent = None THEN 0
    ELSE 1 + Level(tree, tree.nodes[guid].parent)

(***************************************************************************)
(* Input trees.  A shape is a preorder listing of the live non-root guids  *)
(* with the depth of each; every ordered tree has exactly one.             *)
(***************************************************************************)
DepthSeqs(k) ==
    {d \in [1..k -> 1..k] :
        /\ k > 0 => d[1] = 1
        /\ \A i \in 1..(k - 1) : d[i + 1] <= d[i] + 1}

Perms(S) ==
    {p \in [1..Cardinality(S) -> S] :
        \A i, j \in 1..Cardinality(S) : i # j => p[i] # p[j]}

Shapes(orders) ==
    UNION {{[order |-> o, depth |-> d] : d \in DepthSeqs(Len(o))} : o \in orders}

\* Local shapes list their guids in the order of GuidNames: the merger
\* never looks inside a guid, so renaming guids changes nothing.
LocalShapes(n) == Shapes({[i \in 1..k |-> GuidNames[i]] : k \in 0..n})
RemoteShapes(n) == Shapes(UNION {Perms(S) : S \in SUBSET FirstGuids(n)})

ShapeLive(sh) == Range(sh.order)

ShapeParent(sh, i) ==
    IF sh.depth[i] = 1 THEN RootGuid
    ELSE LET js == {j \in 1..(i - 1) : sh.depth[j] = sh.depth[i] - 1}
         IN  sh.order[CHOOSE j \in js : \A k \in js : k <= j]

ShapeIndex(sh, guid) == CHOOSE i \in 1..Len(sh.order) : sh.order[i] = guid

ShapeChildren(sh, guid) ==
    LET IsChild(g) == ShapeParent(sh, ShapeIndex(sh, g)) = guid
    IN  SelectSeq(sh.order, IsChild)

DefaultNode ==
    [guid |-> None, parent |-> None, children |-> <<>>,
     kind |-> Folder, age |-> 0, needs_merge |-> FALSE, diverged |-> FALSE,
     syncable |-> TRUE, user_content_root |-> FALSE]

\* The nodes of the tree of a shape, keyed by guid, each with the default
\* attributes: a syncable folder of age 0 that has not changed.
Skeleton(sh) ==
    [g \in ShapeLive(sh) \cup {RootGuid} |->
        [DefaultNode EXCEPT
            !.guid = g,
            !.parent = IF g = RootGuid THEN None
                       ELSE ShapeParent(sh, ShapeIndex(sh, g)),
            !.children = ShapeChildren(sh, g)]]

LocalSkeletons == {Skeleton(sh) : sh \in LocalShapes(NumGuids)}
RemoteSkeletons == {Skeleton(sh) : sh \in RemoteShapes(NumGuids)}
LocalFlagSkeletons == {Skeleton(sh) : sh \in LocalShapes(NumFlagGuids)}
RemoteFlagSkeletons == {Skeleton(sh) : sh \in RemoteShapes(NumFlagGuids)}

Live(nodes) == DOMAIN nodes \ {RootGuid}
Parents(nodes) == {nodes[g].parent : g \in Live(nodes)}

(***************************************************************************)
(* Merged nodes and merge states (tree.rs; modelled from the               *)
(* specification's data model).                                            *)
(***************************************************************************)
Local == "Local"
Remote == "Remote"
Unchanged == "Unchanged"

\* MergedNode::new(guid, merge_state)
MergedNode(guid, side, local_node, remote_node) ==
    [guid |-> guid,
     side |-> side,
     local_node |-> local_node,
     remote_node |-> remote_node,
     new_structure |-> FALSE,
     merged_children |-> <<>>]

NoNode == MergedNode(None, None, None, None)

\* MergeState::with_new_structure
WithNewStructure(node) == [node EXCEPT !.new_structure = TRUE]

\* MergedNode::remote_guid_changed
RemoteGuidChanged(node) ==
    node.remote_node # None /\ node.remote_node # node.guid

PushChild(node, child) ==
    [node EXCEPT !.merged_children = Append(@, child)]

(***************************************************************************)
(* Errors.                                                                 *)
(***************************************************************************)
NoError == [kind |-> "Ok", a |-> None, b |-> None]
MismatchedItemKind(local_kind, remote_kind) ==
    [kind |-> "MismatchedItemKind", a |-> local_kind, b |-> remote_kind]
GenerateGuid(guid) == [kind |-> "GenerateGuid", a |-> guid, b |-> None]
Fail == "fail"

\* DefaultDriver::generate_new_guid: an error for every invalid guid.
DefaultDriver == [g \in InvalidGuids |-> Fail]

(***************************************************************************)
(* The merger's mutable fields, as threaded through the walk.  `mn` is the *)
(* merged node a method mutates through its `&mut` parameter or, for the   *)
(* methods that build a node, the node they return.                        *)
(***************************************************************************)
ZeroCounts ==
    [remote_revives |-> 0, local_deletes |-> 0, local_revives |-> 0,
     remote_deletes |-> 0, dupes |-> 0]

NewMerger ==
    [merged_guids |-> {},
     delete_locally |-> {},
     delete_remotely |-> {},
     structure_counts |-> ZeroCounts,
     dupes |-> <<>>,
     traced |-> {},
     deferred |-> {},
     relocated |-> {},
     err |-> NoError,
     mn |-> NoNode]

Failed(c) == c.err.kind # "Ok"

\* Merger::mentions
Mentions(c, guid) ==
    \/ guid \in c.merged_guids
    \/ guid \in c.delete_locally
    \/ guid \in c.delete_remotely

LNode(guid) == NodeForGuid(local_tree, guid)
RNode(guid) == NodeForGuid(remote_tree, guid)

(***************************************************************************)
(* Conflict resolution.                                                    *)
(***************************************************************************)
\* Merger::resolve_value_conflict: <<item, children>>
ResolveValueConflict(local_node, remote_node) ==
    IF IsRoot(remote_node) THEN <<Local, Local>>
    ELSE IF local_node.needs_merge /\ remote_node.needs_merge THEN
        IF Diverged(local_node) /\ ~Diverged(remote_node) THEN <<Remote, Remote>>
        ELSE IF ~Diverged(local_node) /\ Diverged(remote_node) THEN <<Local, Local>>
        ELSE IF local_node.age < remote_node.age THEN <<Local, Local>>
        ELSE IF IsUserContentRoot(remote_node) THEN <<Local, Remote>>
        ELSE <<Remote, Remote>>
    ELSE IF local_node.needs_merge THEN <<Local, Local>>
    ELSE IF remote_node.needs_merge THEN
        IF IsUserContentRoot(remote_node) THEN <<Local, Remote>>
        ELSE <<Remote, Remote>>
    ELSE <<Unchanged, Unchanged>>

Min(a, b) == IF a <= b THEN a ELSE b

\* A resolution that keeps a child in its local parent also when neither
\* parent changed.
ResolveStructureConflictKeepLocal(local_parent, local_child, remote_parent, remote_child) ==
    IF IsUserContentRoot(remote_child) THEN Local
    ELSE IF local_parent.needs_merge /\ remote_parent.needs_merge THEN
        IF Diverged(local_parent) /\ ~Diverged(remote_parent) THEN Remote
        ELSE IF ~Diverged(local_parent) /\ Diverged(remote_parent) THEN Local
        ELSE IF Min(local_child.age, local_parent.age)
                    < Min(remote_child.age, remote_parent.age)
             THEN Local ELSE Remote
    ELSE IF remote_parent.needs_merge THEN Remote
    ELSE Local

\* Merger::resolve_structure_conflict
ResolveStructureConflict(local_parent, local_child, remote_parent, remote_child) ==
    IF IsUserContentRoot(remote_child) THEN Local
    ELSE IF local_parent.needs_merge /\ remote_parent.needs_merge THEN
        IF Diverged(local_parent) /\ ~Diverged(remote_parent) THEN Remote
        ELSE IF ~Diverged(local_parent) /\ Diverged(remote_parent) THEN Local
        ELSE LET latest_local_age == Min(local_child.age, local_parent.age)
                 latest_remote_age == Min(remote_child.age, remote_parent.age)
             IN  IF latest_local_age < latest_remote_age THEN Local ELSE Remote
    ELSE IF local_parent.needs_merge THEN Local
    ELSE IF remote_parent.needs_merge THEN Remote
    ELSE Unchanged

(***************************************************************************)
(* Content-based deduping.                                                 *)
(***************************************************************************)
\* An Option<&HashMap<Guid, Content>> is a record: `some` and the map.
NoContents == [some |-> FALSE, map |-> <<>>]
SomeContents(map) == [some |-> TRUE, map |-> map]

HasContent(contents, guid) == contents.some /\ guid \in DOMAIN contents.map

\* A merger that queues no local child, and so never dedupes.
NoDupeCandidates(local_parent) == <<>>

\* The local children that find_all_matching_dupes_in_folders queues, in
\* order: those with new content that are neither in the remote tree nor
\* deleted remotely.
DupeCandidates(local_parent) ==
    LET Queued(g) == /\ HasContent(new_local_contents, g)
                     /\ ~HasNode(remote_tree, g)
                     /\ ~IsDeleted(remote_tree, g)
    IN  SelectSeq(LNode(local_parent).children, Queued)

\* The second loop of find_all_matching_dupes_in_folders, from the i-th
\* remote child on: pop_front of the queue of the remote child's content is
\* the first queued local child with that content not yet paired.
RECURSIVE MatchRemoteChildren(_, _, _, _)
MatchRemoteChildren(queue, remote_children, i, acc) ==
    IF i > Len(remote_children) THEN acc
    ELSE LET rc == remote_children[i]
             left == {j \in 1..Len(queue) :
                        /\ queue[j] \notin DOMAIN acc.local_to_remote
                        /\ new_local_contents.map[queue[j]] = new_remote_contents.map[rc]}
         IN  IF \/ rc \in DOMAIN acc.remote_to_local
                \/ ~HasContent(new_remote_contents, rc)
                \/ left = {}
             THEN MatchRemoteChildren(queue, remote_children, i + 1, acc)
             ELSE LET lc == queue[CHOOSE j \in left : \A k \in left : j <= k]
                  IN  MatchRemoteChildren(queue, remote_children, i + 1,
                        [local_to_remote |-> acc.local_to_remote @@ (lc :> rc),
                         remote_to_local |-> acc.remote_to_local @@ (rc :> lc)])

\* Merger::find_all_matching_dupes_in_folders
FindAllMatchingDupesInFolders(local_parent, remote_parent) ==
    MatchRemoteChildren(DupeCandidates(local_parent),
                        RNode(remote_parent).children, 1,
                        [local_to_remote |-> <<>>, remote_to_local |-> <<>>])

\* The entry of the cache for local_parent, computed on first use.
WithDupes(c, local_parent, remote_parent) ==
    IF local_parent \in DOMAIN c.dupes THEN c
    ELSE [c EXCEPT !.dupes =
            @ @@ (local_parent :> FindAllMatchingDupesInFolders(local_parent, remote_parent))]

\* A merger that counts a deduped pair twice.
CountDupeTwice(c) ==
    [c EXCEPT !.structure_counts.dupes = @ + 2]

\* structure_counts.dupes += 1
CountDupe(c) ==
    [c EXCEPT !.structure_counts.dupes = @ + 1]

\* Merger::find_remote_node_matching_local_node: the merger after the
\* call, and the remote guid found (or None) in `found`.
FindRemoteNodeMatchingLocalNode(c, local_parent, remote_parent, local_child) ==
    IF remote_parent = None THEN [c |-> c, found |-> None]
    ELSE LET c1 == WithDupes(c, local_parent, remote_parent)
             map == c1.dupes[local_parent].local_to_remote
         IN  IF local_child \in DOMAIN map
             THEN [c |-> CountDupe(c1), found |-> map[local_child]]
             ELSE [c |-> c1, found |-> None]

\* Merger::find_local_node_matching_remote_node
FindLocalNodeMatchingRemoteNode(c, local_parent, remote_parent, remote_child) ==
    IF local_parent = None THEN [c |-> c, found |-> None]
    ELSE LET c1 == WithDupes(c, local_parent, remote_parent)
             map == c1.dupes[local_parent].remote_to_local
         IN  IF remote_child \in DOMAIN map
             THEN [c |-> CountDupe(c1), found |-> map[remote_child]]
             ELSE [c |-> c1, found |-> None]

(***************************************************************************)
(* The recursive walk.  Every operator takes the merger `c` and returns    *)
(* the merger after the call; an error (`?` in the source) ends each       *)
(* caller at once, keeping what the merger held at that point.             *)
(***************************************************************************)
RECURSIVE Call(_, _, _)

\* `self.<method>(...)`: a call of a method of the merger, on the merger `c`.
two_way_merge(c, a, b) ==
    Call("two_way_merge", c, <<a, b>>)
merge_local_node(c, a) ==
    Call("merge_local_node", c, <<a>>)
merge_remote_node(c, a) ==
    Call("merge_remote_node", c, <<a>>)
merge_local_child_into_merged_node(c, a, b, d) ==
    Call("merge_local_child_into_merged_node", c, <<a, b, d>>)
merge_remote_child_into_merged_node(c, a, b, d) ==
    Call("merge_remote_child_into_merged_node", c, <<a, b, d>>)
merge_local_children(c, a, b, d) ==
    Call("merge_local_children", c, <<a, b, d>>)
merge_remote_children(c, a, b, d) ==
    Call("merge_remote_children", c, <<a, b, d>>)
check_for_local_structure_change_of_remote_node(c, a, b) ==
    Call("check_for_local_structure_change_of_remote_node", c, <<a, b>>)
check_for_remote_structure_change_of_local_node(c, a, b) ==
    Call("check_for_remote_structure_change_of_local_node", c, <<a, b>>)
relocate_remote_orphans_to_merged_node(c, a, b) ==
    Call("relocate_remote_orphans_to_merged_node", c, <<a, b>>)
relocate_local_orphans_to_merged_node(c, a, b) ==
    Call("relocate_local_orphans_to_merged_node", c, <<a, b>>)


\* A caller that drops the error of the call and goes on without the node.
AdoptOrSkip(built, parent, flag_parent, flag_child) ==
    IF Failed(built) THEN [built EXCEPT !.err = NoError, !.mn = parent]
    ELSE [built EXCEPT !.mn =
            PushChild(IF flag_parent THEN WithNewStructure(parent) ELSE parent,
                      IF flag_child THEN WithNewStructure(built.mn) ELSE built.mn)]

\* What a caller does with the node `built.mn` that a call returned: on an
\* error nothing; otherwise the caller's merged node `parent`, flagged when
\* flag_parent, gets the node, flagged when flag_child, as its last child.
Adopt(built, parent, flag_parent, flag_child) ==
    IF Failed(built) THEN [built EXCEPT !.mn = parent]
    ELSE [built EXCEPT !.mn =
            PushChild(IF flag_parent THEN WithNewStructure(parent) ELSE parent,
                      IF flag_child THEN WithNewStructure(built.mn) ELSE built.mn)]

\* A driver that hands every invalid guid back, whatever it was built to
\* return.
KeepInvalidGuid(invalid_guid) == invalid_guid

\* Driver::generate_new_guid
GenerateNewGuid(invalid_guid) == driver[invalid_guid]

\* Merger::merge_local_node
MergeLocalNode(c, local) ==
    LET c1 == [c EXCEPT !.merged_guids = @ \cup {local}]
        new_guid == GenerateNewGuid(local)
    IN  IF ~Valid(local) /\ new_guid = Fail
        THEN [c1 EXCEPT !.err = GenerateGuid(local), !.mn = NoNode]
        ELSE LET merged_guid == IF Valid(local) THEN local ELSE new_guid
                 c2 == [c1 EXCEPT !.merged_guids = @ \cup {merged_guid},
                                  !.mn = MergedNode(merged_guid, Local, local, None)]
             IN  IF IsFolder(LNode(local))
                 THEN merge_local_children(c2, local, None, 1)
                 ELSE c2

\* Merger::merge_remote_node
MergeRemoteNode(c, remote) ==
    LET c1 == [c EXCEPT !.merged_guids = @ \cup {remote}]
        new_guid == GenerateNewGuid(remote)
    IN  IF ~Valid(remote) /\ new_guid = Fail
        THEN [c1 EXCEPT !.err = GenerateGuid(remote), !.mn = NoNode]
        ELSE LET merged_guid == IF Valid(remote) THEN remote ELSE new_guid
                 c2 == [c1 EXCEPT
                          !.merged_guids = @ \cup {merged_guid},
                          !.delete_remotely =
                              IF merged_guid # remote THEN @ \cup {remote} ELSE @,
                          !.mn = MergedNode(merged_guid, Remote, None, remote)]
             IN  IF IsFolder(RNode(remote))
                 THEN merge_remote_children(c2, None, remote, 1)
                 ELSE c2

\* The loops `for local_child_node in local_node.children()` that call
\* merge_local_child_into_merged_node, from the i-th child on.
MergeLocalChildren(c, local_parent, remote_parent, i) ==
    IF Failed(c) \/ i > Len(LNode(local_parent).children) THEN c
    ELSE merge_local_children(
            merge_local_child_into_merged_node(c, local_parent, remote_parent,
                                          LNode(local_parent).children[i]),
            local_parent, remote_parent, i + 1)

\* The loops `for remote_child_node in remote_node.children()`.
MergeRemoteChildren(c, local_parent, remote_parent, i) ==
    IF Failed(c) \/ i > Len(RNode(remote_parent).children) THEN c
    ELSE merge_remote_children(
            merge_remote_child_into_merged_node(c, local_parent, remote_parent,
                                           RNode(remote_parent).children[i]),
            local_parent, remote_parent, i + 1)

\* Merger::two_way_merge
TwoWayMerge(c, local, remote) ==
    IF ~HasCompatibleKind(LNode(local), RNode(remote))
    THEN [c EXCEPT !.traced = @ \cup {<<local, remote>>},
                   !.err = MismatchedItemKind(LNode(local).kind, RNode(remote).kind),
                   !.mn = NoNode]
    ELSE LET resolved == ResolveValueConflict(LNode(local), RNode(remote))
             c1 == [c EXCEPT !.traced = @ \cup {<<local, remote>>},
                             !.merged_guids = @ \cup {remote, local},
                             !.mn = MergedNode(remote, resolved[1], local, remote)]
         IN  IF resolved[2] = Local
             THEN merge_remote_children(merge_local_children(c1, local, remote, 1),
                                      local, remote, 1)
             ELSE merge_local_children(merge_remote_children(c1, local, remote, 1),
                                     local, remote, 1)

\* A merge that walks every remote child it is handed, seen before or not.
RemoteChildNeverSeen(c, remote_child) == FALSE

\* The check that opens merge_remote_child_into_merged_node: the remote
\* child was already seen in another folder and merged.
RemoteChildAlreadySeen(c, remote_child) == remote_child \in c.merged_guids

\* Merger::merge_remote_child_into_merged_node
MergeRemoteChildIntoMergedNode(c, local_parent, remote_parent, remote_child) ==
    IF RemoteChildAlreadySeen(c, remote_child) THEN c
    ELSE
    LET chk == check_for_local_structure_change_of_remote_node(c, remote_parent, remote_child)
        c1 == chk.c
    IN
    IF Failed(c1) THEN c1
    ELSE IF chk.change = "Deleted" THEN [c1 EXCEPT !.mn = WithNewStructure(@)]
    ELSE IF HasNode(local_tree, remote_child) THEN
        LET local_child_parent == LNode(remote_child).parent
            flag_child == Diverged(RNode(remote_child)) \/ RemoteGuidChanged(c1.mn)
        IN  IF IsDeleted(remote_tree, local_child_parent)
            THEN Adopt(two_way_merge(c1, remote_child, remote_child), c1.mn,
                       FALSE, flag_child)
            ELSE IF ResolveStructureConflict(LNode(local_child_parent),
                                             LNode(remote_child),
                                             RNode(remote_parent),
                                             RNode(remote_child)) = Local
            THEN [c1 EXCEPT !.deferred = @ \cup {<<Local, remote_child>>},
                            !.mn = WithNewStructure(@)]
            ELSE Adopt(two_way_merge(c1, remote_child, remote_child), c1.mn,
                       FALSE, flag_child)
    ELSE
        LET dupe == FindLocalNodeMatchingRemoteNode(c1, local_parent,
                                                    remote_parent, remote_child)
            flag_child == Diverged(RNode(remote_child)) \/ RemoteGuidChanged(c1.mn)
        IN  Adopt(IF dupe.found # None
                  THEN two_way_merge(dupe.c, dupe.found, remote_child)
                  ELSE merge_remote_node(dupe.c, remote_child),
                  c1.mn, FALSE, flag_child)

\* A merge that flags the merged parent of a remotely deleted local child.
LocalChildDeletedFlagsParent(c) == [c EXCEPT !.mn = WithNewStructure(@)]

\* What merge_local_child_into_merged_node does to the merger when the
\* local child is deleted: nothing ("we don't need to flag the merged
\* parent for reupload").
LocalChildDeleted(c) == c

\* A merge that flags the merged parent a local child was moved out of
\* remotely.
LocalMoveIgnoredFlagsParent(c) == [c EXCEPT !.mn = WithNewStructure(@)]

\* What merge_local_child_into_merged_node does when the remote move or
\* position of the local child is the newer one: nothing ("we ignore the
\* local move"); the child is merged when its remote parent is walked.
LocalMoveIgnored(c) == c

\* Merger::merge_local_child_into_merged_node
MergeLocalChildIntoMergedNode(c, local_parent, remote_parent, local_child) ==
    IF local_child \in c.merged_guids THEN c
    ELSE
    LET chk == check_for_remote_structure_change_of_local_node(c, local_parent, local_child)
        c1 == chk.c
    IN
    IF Failed(c1) THEN c1
    ELSE IF chk.change = "Deleted" THEN LocalChildDeleted(c1)
    ELSE IF HasNode(remote_tree, local_child) THEN
        LET remote_child_parent == RNode(local_child).parent
        IN  IF IsDeleted(local_tree, remote_child_parent)
            THEN Adopt(two_way_merge(c1, local_child, local_child), c1.mn, TRUE, TRUE)
            ELSE IF ResolveStructureConflict(LNode(local_parent),
                                             LNode(local_child),
                                             RNode(remote_child_parent),
                                             RNode(local_child)) = Local
            THEN IF local_parent # remote_child_parent
                 THEN Adopt(two_way_merge(c1, local_child, local_child), c1.mn,
                            TRUE, TRUE)
                 ELSE Adopt(two_way_merge(c1, local_child, local_child), c1.mn,
                            TRUE,
                            \/ Diverged(RNode(local_child))
                            \/ RemoteGuidChanged(WithNewStructure(c1.mn)))
            ELSE LocalMoveIgnored(
                    [c1 EXCEPT !.deferred = @ \cup {<<Remote, local_child>>}])
    ELSE
        LET dupe == FindRemoteNodeMatchingLocalNode(c1, local_parent,
                                                    remote_parent, local_child)
        IN  IF dupe.found # None
            THEN LET flag == \/ Diverged(RNode(dupe.found))
                             \/ RemoteGuidChanged(c1.mn)
                 IN  Adopt(two_way_merge(dupe.c, local_child, dupe.found), c1.mn,
                           flag, flag)
            ELSE Adopt(merge_local_node(dupe.c, local_child), c1.mn, TRUE, TRUE)

\* A deletion of the remote node that also deletes the guid locally.
DeleteRemotelyAndLocally(c, remote) ==
    LET c1 == [c EXCEPT !.delete_remotely = @ \cup {remote},
                        !.delete_locally = @ \cup {remote}]
    IN  [c |-> IF IsFolder(RNode(remote))
               THEN relocate_remote_orphans_to_merged_node(c1, remote, 1)
               ELSE c1,
         change |-> "Deleted"]

\* The three places where check_for_local_structure_change_of_remote_node
\* takes the deletion of the remote node.
DeleteRemotely(c, remote) ==
    LET c1 == [c EXCEPT !.delete_remotely = @ \cup {remote}]
    IN  [c |-> IF IsFolder(RNode(remote))
               THEN relocate_remote_orphans_to_merged_node(c1, remote, 1)
               ELSE c1,
         change |-> "Deleted"]

\* Merger::check_for_local_structure_change_of_remote_node: the merger after
\* the call and the StructureChange returned.
CheckForLocalStructureChangeOfRemoteNode(c, remote_parent, remote) ==
    IF ~IsSyncable(RNode(remote)) THEN DeleteRemotely(c, remote)
    ELSE IF ~IsDeleted(local_tree, remote) THEN
        IF HasNode(local_tree, remote) THEN
            IF ~IsSyncable(LNode(remote)) THEN DeleteRemotely(c, remote)
            ELSE IF LNode(remote).parent # remote_parent
            THEN [c |-> c, change |-> "Moved"]
            ELSE [c |-> c, change |-> "Unchanged"]
        ELSE [c |-> c, change |-> "Unchanged"]
    ELSE IF RNode(remote).needs_merge THEN
        IF ~IsFolder(RNode(remote))
        THEN [c |-> [c EXCEPT !.structure_counts.remote_revives = @ + 1],
              change |-> "Unchanged"]
        ELSE DeleteRemotely([c EXCEPT !.structure_counts.local_deletes = @ + 1],
                            remote)
    ELSE DeleteRemotely(c, remote)

\* A remote deletion of a changed local folder that is not counted.
CountNothing(c) == c

\* `self.structure_counts.remote_deletes += 1`
CountRemoteDelete(c) ==
    [c EXCEPT !.structure_counts.remote_deletes = @ + 1]

\* The places where check_for_remote_structure_change_of_local_node takes
\* the deletion of the local node; relocate says whether the orphans
\* of the local node are relocated.
DeleteLocally(c, local, relocate) ==
    LET c1 == [c EXCEPT !.delete_locally = @ \cup {local}]
    IN  [c |-> IF relocate
               THEN relocate_local_orphans_to_merged_node(c1, local, 1)
               ELSE c1,
         change |-> "Deleted"]

\* Merger::check_for_remote_structure_change_of_local_node
CheckForRemoteStructureChangeOfLocalNode(c, local_parent, local) ==
    IF ~IsSyncable(LNode(local))
    THEN DeleteLocally(c, local, IsFolder(LNode(local)))
    ELSE IF ~IsDeleted(remote_tree, local) THEN
        IF HasNode(remote_tree, local) THEN
            IF ~IsSyncable(RNode(local))
            THEN DeleteLocally(c, local, IsFolder(RNode(local)))
            ELSE IF RNode(local).parent # local_parent
            THEN [c |-> c, change |-> "Moved"]
            ELSE [c |-> c, change |-> "Unchanged"]
        ELSE [c |-> c, change |-> "Unchanged"]
    ELSE IF LNode(local).needs_merge THEN
        IF ~IsFolder(LNode(local))
        THEN [c |-> [c EXCEPT !.structure_counts.local_revives = @ + 1],
              change |-> "Unchanged"]
        ELSE DeleteLocally(CountRemoteDelete(c), local, IsFolder(LNode(local)))
    ELSE DeleteLocally(c, local, IsFolder(LNode(local)))

\* Merger::relocate_remote_orphans_to_merged_node, from the i-th child of
\* the deleted remote node on.
RelocateRemoteOrphansToMergedNode(c, remote, i) ==
    IF Failed(c) \/ i > Len(RNode(remote).children) THEN c
    ELSE
    LET remote_child == RNode(remote).children[i]
        chk == check_for_local_structure_change_of_remote_node(c, remote, remote_child)
        c1 == chk.c
        c2 == [c1 EXCEPT !.relocated = @ \cup {<<Remote, remote_child, c1.mn.guid>>}]
    IN  IF remote_child \in c.merged_guids
        THEN relocate_remote_orphans_to_merged_node(c, remote, i + 1)
        ELSE IF Failed(c1) THEN c1
        ELSE IF chk.change # "Unchanged"
        THEN relocate_remote_orphans_to_merged_node(c1, remote, i + 1)
        ELSE relocate_remote_orphans_to_merged_node(
                Adopt(IF HasNode(local_tree, remote_child)
                      THEN two_way_merge(c2, remote_child, remote_child)
                      ELSE merge_remote_node(c2, remote_child),
                      c1.mn, TRUE, TRUE),
                remote, i + 1)

\* Merger::relocate_local_orphans_to_merged_node
RelocateLocalOrphansToMergedNode(c, local, i) ==
    IF Failed(c) \/ i > Len(LNode(local).children) THEN c
    ELSE
    LET local_child == LNode(local).children[i]
        chk == check_for_remote_structure_change_of_local_node(c, local, local_child)
        c1 == chk.c
        c2 == [c1 EXCEPT !.relocated = @ \cup {<<Local, local_child, c1.mn.guid>>}]
    IN  IF local_child \in c.merged_guids
        THEN relocate_local_orphans_to_merged_node(c, local, i + 1)
        ELSE IF Failed(c1) THEN c1
        ELSE IF chk.change # "Unchanged"
        THEN relocate_local_orphans_to_merged_node(c1, local, i + 1)
        ELSE relocate_local_orphans_to_merged_node(
                Adopt(IF HasNode(remote_tree, local_child)
                      THEN two_way_merge(c2, local_child, local_child)
                      ELSE merge_local_node(c2, local_child),
                      c1.mn, TRUE, TRUE),
                local, i + 1)

\* The method that a call names, applied to the merger and the arguments.
Call(method, c, args) ==
    CASE method = "two_way_merge" ->
            TwoWayMerge(c, args[1], args[2])
      [] method = "merge_local_node" ->
            MergeLocalNode(c, args[1])
      [] method = "merge_remote_node" ->
            MergeRemoteNode(c, args[1])
      [] method = "merge_local_child_into_merged_node" ->
            MergeLocalChildIntoMergedNode(c, args[1], args[2], args[3])
      [] method = "merge_remote_child_into_merged_node" ->
            MergeRemoteChildIntoMergedNode(c, args[1], args[2], args[3])
      [] method = "merge_local_children" ->
            MergeLocalChildren(c, args[1], args[2], args[3])
      [] method = "merge_remote_children" ->
            MergeRemoteChildren(c, args[1], args[2], args[3])
      [] method = "check_for_local_structure_change_of_remote_node" ->
            CheckForLocalStructureChangeOfRemoteNode(c, args[1], args[2])
      [] method = "check_for_remote_structure_change_of_local_node" ->
            CheckForRemoteStructureChangeOfLocalNode(c, args[1], args[2])
      [] method = "relocate_remote_orphans_to_merged_node" ->
            RelocateRemoteOrphansToMergedNode(c, args[1], args[2])
      [] method = "relocate_local_orphans_to_merged_node" ->
            RelocateLocalOrphansToMergedNode(c, args[1], args[2])

(***************************************************************************)
(* The public operations.                                                  *)
(***************************************************************************)
\* A finalizer that goes through the remote tombstones first.
FinalizeRemoteFirst(c) ==
    LET c1 == [c EXCEPT !.delete_locally =
                 @ \cup {g \in remote_tree.deleted : ~Mentions(c, g)}]
    IN  [c1 EXCEPT !.delete_remotely =
           @ \cup {g \in local_tree.deleted : ~Mentions(c1, g)}]

\* The two loops that end Merger::merge: tombstones of one side that the
\* walk did not mention are deleted on the other side.
Finalize(c) ==
    LET c1 == [c EXCEPT !.delete_remotely =
                 @ \cup {g \in local_tree.deleted : ~Mentions(c, g)}]
    IN  [c1 EXCEPT !.delete_locally =
           @ \cup {g \in remote_tree.deleted : ~Mentions(c1, g)}]

\* Merger::merge
Merge ==
    /\ pc = "new"
    /\ LET walked == two_way_merge(NewMerger, TreeRoot(local_tree), TreeRoot(remote_tree))
           c == IF Failed(walked) THEN walked ELSE Finalize(walked)
       IN  /\ merged_guids' = c.merged_guids
           /\ delete_locally' = c.delete_locally
           /\ delete_remotely' = c.delete_remotely
           /\ structure_counts' = c.structure_counts
           /\ matching_dupes_by_local_parent_guid' = c.dupes
           /\ merged_root' = [ok |-> ~Failed(c),
                              node |-> IF Failed(c) THEN NoNode ELSE c.mn,
                              err |-> c.err]
           /\ traced' = c.traced
           /\ deferred' = c.deferred
           /\ relocated' = c.relocated
           /\ pc' = IF Failed(c) THEN "failed" ELSE "merged"
    /\ UNCHANGED <<local_tree, remote_tree, new_local_contents,
                   new_remote_contents, driver, emitted, first_merge>>

\* Merger::subsumes
Subsumes(tree) ==
    \A guid \in TreeGuids(tree) :
        \/ guid \in merged_guids
        \/ guid \in delete_locally
        \/ guid \in delete_remotely

\* Merger::telemetry
Telemetry == structure_counts

\* A level looked up in the remote tree.
RemoteLevel(guid) ==
    IF HasNode(remote_tree, guid) THEN Level(remote_tree, guid) ELSE -1

\* The local_level of a Deletion: the level of the node in the local tree,
\* -1 when the local tree has no such node.
LocalLevel(guid) ==
    IF HasNode(local_tree, guid) THEN Level(local_tree, guid) ELSE -1

Deletion(guid, should_upload_tombstone) ==
    [guid |-> guid,
     local_level |-> LocalLevel(guid),
     should_upload_tombstone |-> should_upload_tombstone]

\* Local deletions that do not leave out what is also deleted remotely.
AllLocalDeletions ==
    {Deletion(guid, FALSE) : guid \in delete_locally}

\* Merger::local_deletions: what the iterator yields, as a set (a HashSet
\* iterates in no particular order).
LocalDeletions ==
    {Deletion(guid, FALSE) : guid \in {g \in delete_locally : g \notin delete_remotely}}

\* Remote deletions that leave out what is also deleted locally.
OnlyRemoteDeletions ==
    {Deletion(guid, TRUE) : guid \in delete_remotely \ delete_locally}

\* Merger::remote_deletions
RemoteDeletions ==
    {Deletion(guid, TRUE) : guid \in delete_remotely}

\* Merger::deletions: the local deletions chained with the remote ones,
\* each part in any order.
Deletions ==
    /\ pc \in {"merged", "failed"}
    /\ \E first \in Perms(LocalDeletions), second \in Perms(RemoteDeletions) :
          emitted' = first \o second
    /\ pc' = "iterated"
    /\ UNCHANGED <<local_tree, remote_tree, new_local_contents,
                   new_remote_contents, driver,
                   matching_dupes_by_local_parent_guid, merged_guids,
                   delete_locally, delete_remotely, structure_counts,
                   merged_root, traced, deferred, relocated,
                   first_merge>>

(***************************************************************************)
(* Initial states: a fresh Merger::new(local_tree, remote_tree) for each   *)
(* pair of input trees of a family.                                        *)
(***************************************************************************)
\* A node that has children on either side is a folder on both.
Leaves(ln, rn) == (Live(ln) \cup Live(rn)) \ (Parents(ln) \cup Parents(rn))

\* No merger of these trees before this one.
NoFirstMerge ==
    [some |-> FALSE,
     merged_root |-> [ok |-> FALSE, node |-> NoNode, err |-> NoError],
     delete_locally |-> {},
     delete_remotely |-> {},
     structure_counts |-> ZeroCounts]

\* Merger::with_driver
WithDriver(d, local, local_contents, remote, remote_contents) ==
    /\ driver = d
    /\ local_tree = local
    /\ new_local_contents = SomeContents(local_contents)
    /\ remote_tree = remote
    /\ new_remote_contents = SomeContents(remote_contents)
    /\ matching_dupes_by_local_parent_guid = <<>>
    /\ merged_guids = {}
    /\ delete_locally = {}
    /\ delete_remotely = {}
    /\ structure_counts = ZeroCounts
    /\ merged_root = [ok |-> FALSE, node |-> NoNode, err |-> NoError]
    /\ emitted = <<>>
    /\ traced = {}
    /\ deferred = {}
    /\ relocated = {}
    /\ first_merge = NoFirstMerge
    /\ pc = "new"

\* Merger::with_contents
WithContents(local, local_contents, remote, remote_contents) ==
    WithDriver(DefaultDriver, local, local_contents, remote, remote_contents)

\* Merger::new
NewState(local, remote) ==
    /\ driver = DefaultDriver
    /\ local_tree = local
    /\ new_local_contents = NoContents
    /\ remote_tree = remote
    /\ new_remote_contents = NoContents
    /\ matching_dupes_by_local_parent_guid = <<>>
    /\ merged_guids = {}
    /\ delete_locally = {}
    /\ delete_remotely = {}
    /\ structure_counts = ZeroCounts
    /\ merged_root = [ok |-> FALSE, node |-> NoNode, err |-> NoError]
    /\ emitted = <<>>
    /\ traced = {}
    /\ deferred = {}
    /\ relocated = {}
    /\ first_merge = NoFirstMerge
    /\ pc = "new"

\* What InitStructure and InitSyncable leave out, because the merger cannot
\* tell the inputs
\* apart: a leaf (a node without children on either side) is a bookmark
\* unless the other side has its tombstone (only then is_folder is read for
\* a leaf, to decide between reviving and deleting it); needs_merge is false
\* for a leaf that only one side knows (it is never read); and a leaf that
\* lives on both sides is not changed on both (with equal ages that
\* resolves as a remote change does).
PlainLeaves(ln, rn, ld, rd, lnm, rnm, leaf) ==
    \A g \in Leaves(ln, rn) \ (ld \cup rd) :
        /\ leaf[g] = Bookmark
        /\ g \notin DOMAIN rn => ~lnm[g]
        /\ g \notin DOMAIN ln => ~rnm[g]
        /\ (g \in DOMAIN rn /\ g \in DOMAIN ln) => ~(lnm[g] /\ rnm[g])

\* Structure: every pair of shapes over Guids, every choice of tombstones
\* for the guids that live on the other side only, every choice of the kind
\* of a leaf, and every choice of needs_merge that marks at most MaxChanged
\* nodes of each tree.  (InitSyncable marks any number of nodes, in the
\* smaller trees.)
InitStructure ==
    \E ln \in LocalSkeletons, rn \in RemoteSkeletons :
    \E ld \in SUBSET (Live(rn) \ Live(ln)), rd \in SUBSET (Live(ln) \ Live(rn)) :
    \E lnm \in [DOMAIN ln -> BOOLEAN], rnm \in [DOMAIN rn -> BOOLEAN] :
    \E leaf \in [Leaves(ln, rn) -> {Folder, Bookmark}] :
        /\ Cardinality({g \in DOMAIN ln : lnm[g]}) <= MaxChanged
        /\ Cardinality({g \in DOMAIN rn : rnm[g]}) <= MaxChanged
        /\ PlainLeaves(ln, rn, ld, rd, lnm, rnm, leaf)
        /\ LET kindOf(g) == IF g \in DOMAIN leaf THEN leaf[g] ELSE Folder
           IN  NewState(
                 [nodes |-> [g \in DOMAIN ln |->
                                [ln[g] EXCEPT !.kind = kindOf(g),
                                              !.needs_merge = lnm[g]]],
                  deleted |-> ld],
                 [nodes |-> [g \in DOMAIN rn |->
                                [rn[g] EXCEPT !.kind = kindOf(g),
                                              !.needs_merge = rnm[g]]],
                  deleted |-> rd])

\* Syncability: every pair of shapes over the first NumFlagGuids guids, every
\* choice of tombstones, of needs_merge, of the kind of a leaf and of
\* is_syncable for each node that is not the root.
InitSyncable ==
    \E ln \in LocalFlagSkeletons, rn \in RemoteFlagSkeletons :
    \E ld \in SUBSET (FirstGuids(NumFlagGuids) \ Live(ln)),
       rd \in SUBSET (FirstGuids(NumFlagGuids) \ Live(rn)) :
    \E lnm \in [DOMAIN ln -> BOOLEAN], rnm \in [DOMAIN rn -> BOOLEAN] :
    \E lsync \in [Live(ln) -> BOOLEAN], rsync \in [Live(rn) -> BOOLEAN] :
    \E leaf \in [Leaves(ln, rn) -> {Folder, Bookmark}] :
        /\ PlainLeaves(ln, rn, ld, rd, lnm, rnm, leaf)
        /\ LET kindOf(g) == IF g \in DOMAIN leaf THEN leaf[g] ELSE Folder
           IN  NewState(
                 [nodes |-> [g \in DOMAIN ln |->
                                [ln[g] EXCEPT !.kind = kindOf(g),
                                              !.needs_merge = lnm[g],
                                              !.syncable = (g = RootGuid \/ lsync[g])]],
                  deleted |-> ld],
                 [nodes |-> [g \in DOMAIN rn |->
                                [rn[g] EXCEPT !.kind = kindOf(g),
                                              !.needs_merge = rnm[g],
                                              !.syncable = (g = RootGuid \/ rsync[g])]],
                  deleted |-> rd])

\* Deduping: every pair of shapes over Guids in which each side has nodes
\* the other side does not know.  Such a node is new (needs_merge) and may
\* have an entry in the contents of its side; it is a bookmark or a folder.
\* The new nodes of a side are all syncable or all not.
InitDedup ==
    \E ln \in LocalSkeletons, rn \in RemoteSkeletons :
    LET lonly == Live(ln) \ Live(rn)
        ronly == Live(rn) \ Live(ln)
        inner == Parents(ln) \cup Parents(rn)
    IN
    /\ lonly # {}
    /\ ronly # {}
    /\ \E lc \in [lonly -> Contents \cup {None}],
          rc \in [ronly -> Contents \cup {None}] :
       \E lk \in [lonly \ inner -> {Folder, Bookmark}],
          rk \in [ronly \ inner -> {Folder, Bookmark}] :
       \E lage \in 0..MaxAge, rdiv \in BOOLEAN :
       \E lsync \in BOOLEAN, rsync \in BOOLEAN :
        /\ \E g \in lonly : lc[g] # None
        /\ \E g \in ronly : rc[g] # None
        /\ \A g \in DOMAIN lk : lc[g] = None => lk[g] = Bookmark
        /\ \A g \in DOMAIN rk : rc[g] = None => rk[g] = Bookmark
        /\ LET kindOf(k, g) == IF g \in DOMAIN k THEN k[g]
                               ELSE IF g \in inner \cup {RootGuid} THEN Folder
                               ELSE Bookmark
           IN  WithContents(
                 [nodes |-> [g \in DOMAIN ln |->
                                [ln[g] EXCEPT !.kind = kindOf(lk, g),
                                              !.needs_merge = (g \in lonly),
                                              !.syncable = (g \in lonly => lsync),
                                              !.age = IF g \in lonly THEN lage ELSE 0]],
                  deleted |-> {}],
                 [g \in {h \in lonly : lc[h] # None} |-> lc[g]],
                 [nodes |-> [g \in DOMAIN rn |->
                                [rn[g] EXCEPT !.kind = kindOf(rk, g),
                                              !.needs_merge = (g \in ronly),
                                              !.syncable = (g \in ronly => rsync),
                                              !.diverged = (g \in ronly /\ rdiv)]],
                  deleted |-> {}],
                 [g \in {h \in ronly : rc[h] # None} |-> rc[g]])

\* Invalid guids: trees over one valid and one invalid guid, or over two
\* invalid guids, merged with a driver that for each invalid guid fails,
\* passes it through or returns a fresh guid (the first invalid guid gets
\* the first fresh guid: which fresh guid it is changes nothing).
\* needs_merge is the same for every node of a side.
DriverShapes ==
    Shapes(UNION {Perms(S) : S \in SUBSET {GuidNames[1], "!I"}}
           \cup UNION {Perms(S) : S \in SUBSET InvalidGuids})
DriverSkeletons == {Skeleton(sh) : sh \in DriverShapes}
Drivers ==
    {d \in [InvalidGuids -> {Fail} \cup InvalidGuids \cup FreshGuids] :
        /\ \A g \in InvalidGuids : d[g] \in InvalidGuids => d[g] = g
        /\ d["!I"] # "N2"}

InitDriver ==
    \E ln \in DriverSkeletons, rn \in DriverSkeletons :
    \E d \in Drivers, lnm \in BOOLEAN, rnm \in BOOLEAN :
        LET kindOf(g) == IF g \in Parents(ln) \cup Parents(rn) \cup {RootGuid}
                         THEN Folder ELSE Bookmark
        IN  WithDriver(d,
              [nodes |-> [g \in DOMAIN ln |->
                            [ln[g] EXCEPT !.kind = kindOf(g), !.needs_merge = lnm]],
               deleted |-> {}],
              <<>>,
              [nodes |-> [g \in DOMAIN rn |->
                            [rn[g] EXCEPT !.kind = kindOf(g), !.needs_merge = rnm]],
               deleted |-> {}],
              <<>>)

Init == InitDedup \/ InitDriver \/ InitSyncable \/ InitStructure

Next ==
    \/ Merge
    \/ Deletions

Spec == Init /\ [][Next]_vars

\* A tree merged with itself: every shape over the first NumIdentityGuids
\* guids, a leaf a folder or a bookmark, the user content roots none, one
\* node or all nodes of depth 1, one age for all nodes, and at most one
\* node changed locally.
IdentitySkeletons == {Skeleton(sh) : sh \in LocalShapes(NumIdentityGuids)}

InitIdentity ==
    \E n \in IdentitySkeletons :
    \E leaf \in [Live(n) \ Parents(n) -> {Folder, Bookmark}] :
    \E roots \in {None, "top"} \cup Live(n) :
    \E age \in 0..MaxAge, changed \in DOMAIN n \cup {None} :
        LET Tree(side) ==
              [nodes |-> [g \in DOMAIN n |->
                  [n[g] EXCEPT
                     !.kind = IF g \in DOMAIN leaf THEN leaf[g] ELSE Folder,
                     !.age = age,
                     !.user_content_root =
                        (g = roots \/ (roots = "top" /\ n[g].parent = RootGuid)),
                     !.needs_merge = (side = Local /\ g = changed)]],
               deleted |-> {}]
        IN  NewState(Tree(Local), Tree(Remote))

SpecIdentity == InitIdentity /\ [][Next]_vars

\* The merges of the inputs that vary is_syncable and the tombstones.
SpecSyncable == InitSyncable /\ [][Next]_vars

\* The merges of the inputs that vary the structure and the tombstones.
SpecStructure == InitStructure /\ [][Next]_vars

\* The merges of the inputs that have content to dedupe.
SpecDedup == InitDedup /\ [][Next]_vars

\* The merges of the inputs that have invalid guids.
SpecDriver == InitDriver /\ [][Next]_vars

\* After a merge, a second merger over the same two trees exchanged:
\* Merger::with_driver(driver, remote_tree, new_remote_contents, local_tree,
\* new_local_contents).  The caller keeps what the first merger gave.
Exchange ==
    /\ pc = "merged"
    /\ ~first_merge.some
    /\ first_merge' = [some |-> TRUE,
                       merged_root |-> merged_root,
                       delete_locally |-> delete_locally,
                       delete_remotely |-> delete_remotely,
                       structure_counts |-> structure_counts]
    /\ local_tree' = remote_tree
    /\ remote_tree' = local_tree
    /\ new_local_contents' = new_remote_contents
    /\ new_remote_contents' = new_local_contents
    /\ matching_dupes_by_local_parent_guid' = <<>>
    /\ merged_guids' = {}
    /\ delete_locally' = {}
    /\ delete_remotely' = {}
    /\ structure_counts' = ZeroCounts
    /\ merged_root' = [ok |-> FALSE, node |-> NoNode, err |-> NoError]
    /\ traced' = {}
    /\ deferred' = {}
    /\ relocated' = {}
    /\ pc' = "new"
    /\ UNCHANGED <<driver, emitted>>

NextSwapped ==
    \/ Merge
    \/ Deletions
    \/ Exchange

\* Kinds: every pair of shapes over the first NumFlagGuids guids, in which
\* each side gives each of its leaves a kind of its own (a node with
\* children is a folder on that side), the first guid is syncable or not
\* on each side, and either no node has content or every node that only
\* one side knows has the same new content.
InitKinds ==
    \E ln \in LocalFlagSkeletons, rn \in RemoteFlagSkeletons :
    \E lk \in [Live(ln) \ Parents(ln) -> {Folder, Bookmark, Query}],
       rk \in [Live(rn) \ Parents(rn) -> {Folder, Bookmark, Query}] :
    \E lsync \in BOOLEAN, rsync \in BOOLEAN, indexed \in BOOLEAN :
        LET lonly == Live(ln) \ Live(rn)
            ronly == Live(rn) \ Live(ln)
            Tree(n, k, only, sync) ==
              [nodes |-> [g \in DOMAIN n |->
                  [n[g] EXCEPT
                     !.kind = IF g \in DOMAIN k THEN k[g] ELSE Folder,
                     !.needs_merge = (g \in only),
                     !.syncable = (g = GuidNames[1] => sync)]],
               deleted |-> {}]
            Index(only) == IF indexed THEN [g \in only |-> "k1"] ELSE <<>>
        IN  WithContents(Tree(ln, lk, lonly, lsync), Index(lonly),
                         Tree(rn, rk, ronly, rsync), Index(ronly))

SpecKinds == InitKinds /\ [][Next]_vars

\* The merges of the inputs with invalid guids and of the inputs with mixed kinds.
SpecWellFormed == (InitDriver \/ InitKinds) /\ [][Next]_vars

\* A bookmark between two folders: locally the root holds the folder A with
\* the bookmark B in it and then the folder C; remotely the root holds the
\* two folders in either order and B is the child of one of them or the
\* last child of the root.  Every choice of needs_merge for each node, of
\* the age of B on each side and of the age of the folders of each side.
MovedShapes ==
    {sh \in RemoteShapes(3) :
        /\ ShapeLive(sh) = FirstGuids(3)
        /\ ShapeParent(sh, ShapeIndex(sh, "A")) = RootGuid
        /\ ShapeParent(sh, ShapeIndex(sh, "C")) = RootGuid
        /\ sh.order[3] = "B" \/ sh.depth[ShapeIndex(sh, "B")] = 2}

InitMoved ==
    \E rsh \in MovedShapes :
    \E lnm \in [FirstGuids(3) \cup {RootGuid} -> BOOLEAN],
       rnm \in [FirstGuids(3) \cup {RootGuid} -> BOOLEAN] :
    \E lage \in [{"B", "folders"} -> 0..MaxAge],
       rage \in [{"B", "folders"} -> 0..MaxAge] :
        LET ln == Skeleton([order |-> <<"A", "B", "C">>, depth |-> <<1, 2, 1>>])
            rn == Skeleton(rsh)
            Tree(n, nm, age) ==
              [nodes |-> [g \in DOMAIN n |->
                  [n[g] EXCEPT
                     !.kind = IF g = "B" THEN Bookmark ELSE Folder,
                     !.age = IF g = "B" THEN age["B"]
                             ELSE IF g = RootGuid THEN 0 ELSE age["folders"],
                     !.needs_merge = nm[g]]],
               deleted |-> {}]
        IN  NewState(Tree(ln, lnm, lage), Tree(rn, rnm, rage))

SpecMoved == InitMoved /\ [][Next]_vars

\* The merges of a bookmark between two folders whose root did not change,
\* each followed by the merge of the same trees exchanged.
InitSwapped ==
    /\ InitMoved
    /\ ~LNode(RootGuid).needs_merge
    /\ ~RNode(RootGuid).needs_merge

SpecSwapped == InitSwapped /\ [][NextSwapped]_vars

\* A folder deleted on one side with a child on the other: remotely the
\* folder C holds D; locally C has a tombstone, D has one or is unknown.
\* Around them the folders A and B, in every shape on each side.  C and D
\* changed remotely or not, at most MaxChanged local nodes changed, and D
\* is a folder or a bookmark.
OrphanShapes ==
    {sh \in RemoteShapes(4) :
        /\ ShapeLive(sh) = FirstGuids(4)
        /\ ShapeParent(sh, ShapeIndex(sh, "D")) = "C"}

InitOrphans ==
    \E ln \in LocalFlagSkeletons, rsh \in OrphanShapes :
    \E lnm \in [DOMAIN ln -> BOOLEAN], rnm \in [{"C", "D"} -> BOOLEAN] :
    \E ld \in {{"C"}, {"C", "D"}}, kind \in {Folder, Bookmark} :
        /\ Cardinality({g \in DOMAIN ln : lnm[g]}) <= MaxChanged
        /\ ShapeChildren(rsh, "D") # <<>> => kind = Folder
        /\ LET rn == Skeleton(rsh)
           IN  NewState(
                 [nodes |-> [g \in DOMAIN ln |-> [ln[g] EXCEPT !.needs_merge = lnm[g]]],
                  deleted |-> ld],
                 [nodes |-> [g \in DOMAIN rn |->
                                [rn[g] EXCEPT
                                   !.kind = IF g = "D" THEN kind ELSE Folder,
                                   !.needs_merge = (g \in DOMAIN rnm /\ rnm[g])]],
                  deleted |-> {}])

\* The merges of the inputs that have a deleted folder with a child.
SpecOrphans == InitOrphans /\ [][Next]_vars

\* Conflicts: both trees are root{A{B}}, A a folder and B a bookmark.  Every
\* choice of needs_merge, diverged and age for A and for B on each side,
\* A a user content root or not, and the root changed on both sides or on
\* neither.
InitConflicts ==
    \E nm \in [{Local, Remote} \X {"A", "B"} -> BOOLEAN],
       div \in [{Local, Remote} \X {"A", "B"} -> BOOLEAN],
       age \in [{Local, Remote} \X {"A", "B"} -> 0..MaxAge] :
    \E ucr \in BOOLEAN, root_changed \in BOOLEAN :
        LET n == Skeleton([order |-> <<"A", "B">>, depth |-> <<1, 2>>])
            Tree(side) ==
              [nodes |-> [g \in DOMAIN n |->
                  IF g = RootGuid
                  THEN [n[g] EXCEPT !.needs_merge = root_changed]
                  ELSE [n[g] EXCEPT
                          !.kind = IF g = "B" THEN Bookmark ELSE Folder,
                          !.needs_merge = nm[<<side, g>>],
                          !.diverged = div[<<side, g>>],
                          !.age = age[<<side, g>>],
                          !.user_content_root = (g = "A" /\ ucr)]],
               deleted |-> {}]
        IN  NewState(Tree(Local), Tree(Remote))

\* The merges of the inputs that vary what the conflict resolvers read.
SpecConflicts == InitConflicts /\ [][Next]_vars

\* Tombstones: every pair of shapes over the first NumFlagGuids guids, every
\* choice of tombstones on each side among those guids and one more guid
\* that lives nowhere, a kind for each leaf on each side, and needs_merge
\* the same for every node of a side below the root.
InitTombstones ==
    \E ln \in LocalFlagSkeletons, rn \in RemoteFlagSkeletons :
    \E ld \in SUBSET (FirstGuids(NumFlagGuids + 1) \ Live(ln)),
       rd \in SUBSET (FirstGuids(NumFlagGuids + 1) \ Live(rn)) :
    \E lk \in [Live(ln) \ Parents(ln) -> {Folder, Bookmark}],
       rk \in [Live(rn) \ Parents(rn) -> {Folder, Bookmark}] :
    \E lnm \in BOOLEAN, rnm \in BOOLEAN :
        LET Tree(n, k, nm, d) ==
              [nodes |-> [g \in DOMAIN n |->
                  [n[g] EXCEPT
                     !.kind = IF g \in DOMAIN k THEN k[g] ELSE Folder,
                     !.needs_merge = (g # RootGuid /\ nm)]],
               deleted |-> d]
        IN  NewState(Tree(ln, lk, lnm, ld), Tree(rn, rk, rnm, rd))

\* The merges of the inputs that vary the tombstones and the kinds.
SpecTombstones == InitTombstones /\ [][Next]_vars

\* The merges of the inputs that vary is_syncable and the tombstones, and of
\* the inputs that have invalid guids.
SpecDeletionSets == (InitSyncable \/ InitDriver) /\ [][Next]_vars

(***************************************************************************)
(* The merged tree, read as the caller of merge() reads it.                *)
(***************************************************************************)
RECURSIVE Descendants(_)
RECURSIVE DescendantsOfAll(_, _)
\* The nodes of the subtree of node, in preorder.
Descendants(node) == <<node>> \o DescendantsOfAll(node.merged_children, 1)
DescendantsOfAll(children, i) ==
    IF i > Len(children) THEN <<>>
    ELSE Descendants(children[i]) \o DescendantsOfAll(children, i + 1)

MergedNodes == Descendants(merged_root.node)
MergedGuidSeq == [i \in DOMAIN MergedNodes |-> MergedNodes[i].guid]
MergedTreeGuids == Range(MergedGuidSeq)
ChildGuids(node) == [i \in DOMAIN node.merged_children |-> node.merged_children[i].guid]
Merged == pc \in {"merged", "iterated"} /\ merged_root.ok

(***************************************************************************)
(* C1.  After a successful merge(), subsumes(local_tree) and               *)
(* subsumes(remote_tree) are true: every live guid of either tree is in    *)
(* merged_guids, delete_locally or delete_remotely.                        *)
(***************************************************************************)
C1_Subsumes == Merged => Subsumes(local_tree) /\ Subsumes(remote_tree)

NoDuplicates(seq) == \A i, j \in DOMAIN seq : i # j => seq[i] # seq[j]

\* The merged nodes made by a call of generate_new_guid: those of
\* merge_local_node and merge_remote_node for an invalid guid.
DriverCalls ==
    {i \in DOMAIN MergedNodes :
        \/ MergedNodes[i].remote_node = None /\ ~Valid(MergedNodes[i].local_node)
        \/ MergedNodes[i].local_node = None /\ ~Valid(MergedNodes[i].remote_node)}

InputGuids ==
    TreeGuids(local_tree) \cup TreeGuids(remote_tree)
    \cup local_tree.deleted \cup remote_tree.deleted

\* The guids the driver returned are pairwise distinct and in neither tree.
DriverReturnedFreshGuids ==
    \A i \in DriverCalls :
        /\ MergedNodes[i].guid \notin InputGuids
        /\ \A j \in DriverCalls : i # j => MergedNodes[i].guid # MergedNodes[j].guid

LiveGuids == TreeGuids(local_tree) \cup TreeGuids(remote_tree)

\* guid identifies a node of the merged tree: it is the guid of a merged
\* node, or the guid of the local node that a merged node was deduped from.
IdentifiesMergedNode(guid) ==
    \E i \in DOMAIN MergedNodes :
        guid \in {MergedNodes[i].guid, MergedNodes[i].local_node}

Outcomes(guid) ==
    (IF IdentifiesMergedNode(guid) THEN {"merged"} ELSE {})
    \cup (IF guid \in delete_locally THEN {"delete_locally"} ELSE {})
    \cup (IF guid \in delete_remotely THEN {"delete_remotely"} ELSE {})

(***************************************************************************)
(* C3, as stated.  After merge(), every guid that is live in either tree   *)
(* has exactly one outcome: it identifies a node of the merged tree, or it *)
(* is in delete_locally, or it is in delete_remotely.                      *)
(***************************************************************************)
C3_ExactlyOne ==
    Merged => \A guid \in LiveGuids : Cardinality(Outcomes(guid)) = 1

NotSyncable(tree, guid) ==
    HasNode(tree, guid) /\ ~IsSyncable(NodeForGuid(tree, guid))

(***************************************************************************)
(* C3, amended.  After merge(), a live guid can be in both delete_locally  *)
(* and delete_remotely, and is in both only when it is live in both trees  *)
(* and not syncable in at least one of them.                               *)
(***************************************************************************)
C3_BothOnlyNonSyncable ==
    Merged =>
        \A guid \in LiveGuids :
            (guid \in delete_locally /\ guid \in delete_remotely) =>
                /\ HasNode(local_tree, guid)
                /\ HasNode(remote_tree, guid)
                /\ NotSyncable(local_tree, guid) \/ NotSyncable(remote_tree, guid)

\* A live guid that merge() put in both deletion sets.
C3_Witness ==
    /\ Merged
    /\ \E guid \in LiveGuids : guid \in delete_locally /\ guid \in delete_remotely

(***************************************************************************)
(* C4.  A merged node whose children differ from the children of its       *)
(* remote node is Local or has new structure.                              *)
(***************************************************************************)
C4_ChangedChildrenUploaded ==
    Merged =>
        \A i \in DOMAIN MergedNodes :
            LET node == MergedNodes[i]
            IN  (/\ node.remote_node # None
                 /\ ChildGuids(node) # RNode(node.remote_node).children)
                => (node.side = Local \/ node.new_structure)

\* The premise of C5 and C6: the local tree and the remote tree are the
\* same tree, without tombstones, every node syncable, not changed and not
\* diverged.
AllUnchanged(tree) ==
    \A g \in TreeGuids(tree) :
        /\ IsSyncable(NodeForGuid(tree, g))
        /\ ~NodeForGuid(tree, g).needs_merge
        /\ ~Diverged(NodeForGuid(tree, g))

MergedWithItself ==
    /\ pc # "new"
    /\ local_tree = remote_tree
    /\ local_tree.deleted = {}
    /\ AllUnchanged(local_tree)

(***************************************************************************)
(* C5.  Merging a tree T with itself, every node syncable, not changed,    *)
(* not diverged and no tombstones, succeeds with a merged tree that has    *)
(* the guids of T, each with the children it has in T in the same order;   *)
(* both deletion sets are empty and all five counters are zero.            *)
(***************************************************************************)
C5_SameTree ==
    MergedWithItself =>
        /\ merged_root.ok
        /\ merged_root.node.guid = TreeRoot(local_tree)
        /\ NoDuplicates(MergedGuidSeq)
        /\ MergedTreeGuids = TreeGuids(local_tree)
        /\ \A i \in DOMAIN MergedNodes :
              ChildGuids(MergedNodes[i]) = LNode(MergedNodes[i].guid).children
        /\ delete_locally = {}
        /\ delete_remotely = {}
        /\ Telemetry = ZeroCounts

(***************************************************************************)
(* C6, as stated.  Merging a tree T with itself (nothing changed, no       *)
(* tombstones, all syncable) gives every merged node, the root included,   *)
(* the merge state Unchanged, and no merged node has new structure.        *)
(***************************************************************************)
C6_AllUnchanged ==
    MergedWithItself =>
        /\ merged_root.ok
        /\ \A i \in DOMAIN MergedNodes :
              /\ MergedNodes[i].side = Unchanged
              /\ ~MergedNodes[i].new_structure

HasUserContentRootChild(node) ==
    \E k \in DOMAIN node.merged_children :
        IsUserContentRoot(RNode(node.merged_children[k].remote_node))

(***************************************************************************)
(* C6, amended.  Merging a tree T with itself gives the root the merge     *)
(* state Local and every other merged node the merge state Unchanged; a    *)
(* merged node has new structure exactly when one of its children is a     *)
(* user content root.                                                      *)
(***************************************************************************)
C6_UnchangedBelowRoot ==
    MergedWithItself =>
        /\ merged_root.ok
        /\ \A i \in DOMAIN MergedNodes :
              /\ MergedNodes[i].side =
                    IF MergedNodes[i].guid = RootGuid THEN Local ELSE Unchanged
              /\ MergedNodes[i].local_node = MergedNodes[i].guid
              /\ MergedNodes[i].remote_node = MergedNodes[i].guid
              /\ MergedNodes[i].new_structure = HasUserContentRootChild(MergedNodes[i])

\* A tree with nodes below the root's children was merged with itself.
C6_Witness ==
    /\ MergedWithItself
    /\ merged_root.ok
    /\ \E i \in DOMAIN MergedNodes :
          /\ MergedNodes[i].guid # RootGuid
          /\ MergedNodes[i].merged_children # <<>>
          /\ MergedNodes[i].side = Unchanged

(***************************************************************************)
(* What deletions() yielded.                                               *)
(***************************************************************************)
Iterated == pc = "iterated"

\* The positions of emitted that hold a Deletion for guid.
Yielded(guid) == {i \in DOMAIN emitted : emitted[i].guid = guid}

RECURSIVE Below(_, _)
\* The guids of the subtree of guid in tree.
Below(tree, guid) ==
    {guid} \cup UNION {Below(tree, NodeForGuid(tree, guid).children[k]) :
                          k \in DOMAIN NodeForGuid(tree, guid).children}

\* The number of proper ancestors of guid in tree.
Depth(tree, guid) ==
    Cardinality({a \in TreeGuids(tree) : a # guid /\ guid \in Below(tree, a)})

(***************************************************************************)
(* C7.  deletions() yields every guid at most once: each guid in           *)
(* delete_remotely with should_upload_tombstone = true, each guid in       *)
(* delete_locally but not in delete_remotely with false, and nothing else; *)
(* local_level is the level of the node in the local tree, or -1 when the  *)
(* local tree has no node with that guid.                                  *)
(***************************************************************************)
C7_Deletions ==
    Iterated =>
        /\ \A i \in DOMAIN emitted :
              /\ Yielded(emitted[i].guid) = {i}
              /\ emitted[i].guid \in delete_locally \cup delete_remotely
              /\ emitted[i].should_upload_tombstone
                    = (emitted[i].guid \in delete_remotely)
              /\ emitted[i].local_level =
                    IF HasNode(local_tree, emitted[i].guid)
                    THEN Depth(local_tree, emitted[i].guid)
                    ELSE -1
        /\ \A guid \in delete_locally \cup delete_remotely : Yielded(guid) # {}

\* deletions() ran over a guid in both sets, a guid deleted only locally
\* and a local node below the first level.
C7_Witness ==
    /\ Iterated
    /\ delete_locally \cap delete_remotely # {}
    /\ delete_locally \ delete_remotely # {}
    /\ \E i \in DOMAIN emitted : emitted[i].local_level >= 2

(***************************************************************************)
(* C8, as stated.  deletions() yields no Deletion for a guid that is in    *)
(* both delete_locally and delete_remotely.                                *)
(***************************************************************************)
C8_BothYieldNothing ==
    Iterated =>
        \A guid \in delete_locally \cap delete_remotely : Yielded(guid) = {}

(***************************************************************************)
(* C8, amended.  For a guid that is in both delete_locally and             *)
(* delete_remotely, deletions() yields exactly one Deletion, the one of    *)
(* remote_deletions, with should_upload_tombstone = true.                  *)
(***************************************************************************)
C8_BothYieldOnce ==
    Iterated =>
        \A guid \in delete_locally \cap delete_remotely :
            /\ Cardinality(Yielded(guid)) = 1
            /\ \A i \in Yielded(guid) : emitted[i].should_upload_tombstone

\* deletions() ran with one guid in both sets and nothing else to delete.
C8_Witness ==
    /\ Iterated
    /\ Cardinality(delete_locally \cap delete_remotely) = 1
    /\ delete_locally = delete_remotely

\* Scenario S3 for the guid: a syncable leaf of the local tree that did not
\* change, with a tombstone in the remote tree, and the merge succeeded.
RemotelyDeletedLeaf(guid) ==
    /\ Merged
    /\ HasNode(local_tree, guid)
    /\ guid # RootGuid
    /\ LNode(guid).children = <<>>
    /\ IsSyncable(LNode(guid))
    /\ ~LNode(guid).needs_merge
    /\ IsDeleted(remote_tree, guid)

(***************************************************************************)
(* C9, as stated.  In scenario S3 the guid A is absent from the merged     *)
(* tree, delete_locally contains A, and deletions() yields                 *)
(* Deletion { A, local_level: L, should_upload_tombstone: true }.          *)
(***************************************************************************)
C9_TombstoneUploaded ==
    Iterated =>
        \A guid \in Guids :
            RemotelyDeletedLeaf(guid) =>
                /\ ~IdentifiesMergedNode(guid)
                /\ guid \in delete_locally
                /\ \E i \in DOMAIN emitted :
                      emitted[i] = [guid |-> guid,
                                    local_level |-> Depth(local_tree, guid),
                                    should_upload_tombstone |-> TRUE]

(***************************************************************************)
(* C9, amended.  In scenario S3 the guid A is absent from the merged tree, *)
(* delete_locally contains A and delete_remotely does not, and             *)
(* deletions() yields for A exactly                                        *)
(* Deletion { A, local_level: L, should_upload_tombstone: false }.         *)
(***************************************************************************)
C9_TombstoneNotUploaded ==
    Iterated =>
        \A guid \in Guids :
            RemotelyDeletedLeaf(guid) =>
                /\ ~IdentifiesMergedNode(guid)
                /\ guid \in delete_locally
                /\ guid \notin delete_remotely
                /\ Yielded(guid) # {}
                /\ \A i \in Yielded(guid) :
                      emitted[i] = [guid |-> guid,
                                    local_level |-> Depth(local_tree, guid),
                                    should_upload_tombstone |-> FALSE]

\* Scenario S3 happened for a leaf below the first level.
C9_Witness ==
    /\ Iterated
    /\ \E guid \in Guids :
          /\ RemotelyDeletedLeaf(guid)
          /\ Depth(local_tree, guid) >= 2
          /\ Yielded(guid) # {}

\* Scenario S4 for the guids f and c: the local tree is R{f{c}}, f changed
\* and c did not; the remote tree has the tombstone of f and c under R.
DeletedFolderWithMovedChild(f, c) ==
    /\ f # c
    /\ TreeGuids(local_tree) = {RootGuid, f, c}
    /\ LNode(RootGuid).children = <<f>>
    /\ LNode(f).children = <<c>>
    /\ LNode(c).children = <<>>
    /\ local_tree.deleted = {}
    /\ LNode(f).needs_merge
    /\ ~LNode(c).needs_merge
    /\ TreeGuids(remote_tree) = {RootGuid, c}
    /\ RNode(RootGuid).children = <<c>>
    /\ RNode(c).children = <<>>
    /\ remote_tree.deleted = {f}
    /\ \A g \in {f, c} : IsSyncable(LNode(g))
    /\ IsSyncable(RNode(c))
    /\ HasCompatibleKind(LNode(c), RNode(c))

(***************************************************************************)
(* C10.  In scenario S4, merge() succeeds; F is absent from the merged     *)
(* tree and in delete_locally, C is in the merged tree exactly once, as a  *)
(* child of the merged root, and remote_deletes is 1 with the other        *)
(* counters zero.                                                          *)
(***************************************************************************)
C10_FolderDeletedChildKept ==
    pc # "new" =>
        \A f, c \in Guids :
            DeletedFolderWithMovedChild(f, c) =>
                /\ merged_root.ok
                /\ ~IdentifiesMergedNode(f)
                /\ f \in delete_locally
                /\ MergedGuidSeq = <<RootGuid, c>>
                /\ ChildGuids(merged_root.node) = <<c>>
                /\ Telemetry = [ZeroCounts EXCEPT !.remote_deletes = 1]

\* Scenario S4 was merged.
C10_Witness ==
    /\ Merged
    /\ \E f, c \in Guids : DeletedFolderWithMovedChild(f, c)
    /\ Len(MergedGuidSeq) = 2

(***************************************************************************)
(* C11, as stated.  In scenario S4 the merged root carries new_structure   *)
(* after merge().                                                          *)
(***************************************************************************)
C11_RootFlagged ==
    pc # "new" =>
        \A f, c \in Guids :
            DeletedFolderWithMovedChild(f, c) =>
                merged_root.ok /\ merged_root.node.new_structure

(***************************************************************************)
(* C11, amended.  In scenario S4 the merged root has the merge state Local *)
(* and does not carry new_structure: neither the deletion of F, met on the *)
(* local walk, nor the remote move of C flags the merged parent.           *)
(***************************************************************************)
C11_RootLocalNotFlagged ==
    pc # "new" =>
        \A f, c \in Guids :
            DeletedFolderWithMovedChild(f, c) =>
                /\ merged_root.ok
                /\ merged_root.node.side = Local
                /\ ~merged_root.node.new_structure

\* Scenario S4 was merged and the merged root kept C as its only child.
C11_Witness ==
    /\ Merged
    /\ \E f, c \in Guids :
          /\ DeletedFolderWithMovedChild(f, c)
          /\ ChildGuids(merged_root.node) = <<c>>
          /\ f \in delete_locally
    /\ merged_root.node.side = Local

\* The merged node that guid identifies.
MergedNodeFor(guid) ==
    MergedNodes[CHOOSE i \in DOMAIN MergedNodes : MergedNodes[i].guid = guid]

\* The number of merged nodes that guid identifies.
Occurrences(guid) ==
    Cardinality({i \in DOMAIN MergedNodes : MergedNodes[i].guid = guid})

\* Scenario S2: the root holds the folders f1 and f2 on both sides, x is the
\* only child of f1 locally and the only child of f2 remotely, all three
\* changed on both sides, none diverged, x changed remotely after it
\* changed locally, and no folder changed after x did on its side.
ReparentedRemotely(f1, x, f2) ==
    /\ TreeGuids(local_tree) = {RootGuid, f1, x, f2}
    /\ TreeGuids(remote_tree) = {RootGuid, f1, x, f2}
    /\ local_tree.deleted = {} /\ remote_tree.deleted = {}
    /\ LNode(f1).parent = RootGuid /\ LNode(f2).parent = RootGuid
    /\ RNode(f1).parent = RootGuid /\ RNode(f2).parent = RootGuid
    /\ LNode(x).parent = f1 /\ RNode(x).parent = f2
    /\ \A g \in {f1, x, f2} :
          /\ LNode(g).needs_merge /\ RNode(g).needs_merge
          /\ ~Diverged(LNode(g)) /\ ~Diverged(RNode(g))
          /\ IsSyncable(LNode(g)) /\ IsSyncable(RNode(g))
          /\ LNode(g).age >= LNode(x).age
          /\ RNode(g).age >= RNode(x).age
    /\ RNode(x).age < LNode(x).age

\* What the claim and its amendment agree on: x is merged once, as the only
\* child of the merged f2, nothing was counted and nothing is to delete.
ReparentedUnderF2(f1, x, f2) ==
    /\ merged_root.ok
    /\ Occurrences(x) = 1
    /\ Occurrences(f1) = 1 /\ Occurrences(f2) = 1
    /\ ChildGuids(MergedNodeFor(f2)) = <<x>>
    /\ ChildGuids(MergedNodeFor(f1)) = <<>>
    /\ structure_counts = ZeroCounts
    /\ delete_locally = {} /\ delete_remotely = {}

(***************************************************************************)
(* C12, as stated.  In scenario S2, after merge() X appears exactly once,  *)
(* under the merged F2, the merged F1 and the merged F2 both carry         *)
(* new_structure, every counter is zero and both deletion sets are empty.  *)
(***************************************************************************)
C12_BothFoldersFlagged ==
    pc # "new" =>
        \A f1, x, f2 \in Guids :
            ReparentedRemotely(f1, x, f2) =>
                /\ ReparentedUnderF2(f1, x, f2)
                /\ MergedNodeFor(f1).new_structure
                /\ MergedNodeFor(f2).new_structure

(***************************************************************************)
(* C12, amended.  In scenario S2, after merge() X appears exactly once,    *)
(* under the merged F2, every counter is zero, both deletion sets are      *)
(* empty, and neither the merged F1 nor the merged F2 nor the merged X     *)
(* carries new_structure: the local walk ignores the older local move and  *)
(* the remote walk merges X into F2 without flagging anything.             *)
(***************************************************************************)
C12_NoFolderFlagged ==
    pc # "new" =>
        \A f1, x, f2 \in Guids :
            ReparentedRemotely(f1, x, f2) =>
                /\ ReparentedUnderF2(f1, x, f2)
                /\ ~MergedNodeFor(f1).new_structure
                /\ ~MergedNodeFor(f2).new_structure
                /\ ~MergedNodeFor(x).new_structure

\* Scenario S2 was merged, with the remote folders older than X.
C12_Witness ==
    /\ Merged
    /\ \E f1, x, f2 \in Guids :
          /\ ReparentedRemotely(f1, x, f2)
          /\ RNode(f2).age > RNode(x).age
          /\ MergedNodeFor(x).side = Remote

\* Scenario S5: the folder p lives on both sides, its child l lives only
\* locally and has new local content, its child r lives only remotely and
\* has new remote content equal to l's, and neither guid has a tombstone.
ContentMatch(p, l, r) ==
    /\ l # r
    /\ HasNode(local_tree, p) /\ HasNode(remote_tree, p)
    /\ HasNode(local_tree, l) /\ ~HasNode(remote_tree, l)
    /\ HasNode(remote_tree, r) /\ ~HasNode(local_tree, r)
    /\ LNode(l).parent = p /\ RNode(r).parent = p
    /\ {l, r} \cap (local_tree.deleted \cup remote_tree.deleted) = {}
    /\ HasContent(new_local_contents, l)
    /\ HasContent(new_remote_contents, r)
    /\ new_local_contents.map[l] = new_remote_contents.map[r]

\* The pair was deduped: one merged node stands for l and r under the merged
\* p, it is identified by r's guid, l's guid identifies nothing, and neither
\* guid is to delete.
Deduped(p, l, r) ==
    /\ merged_root.ok
    /\ Occurrences(r) = 1
    /\ Occurrences(p) = 1
    /\ Occurrences(l) = 0
    /\ \E i \in DOMAIN MergedNodeFor(p).merged_children :
          LET child == MergedNodeFor(p).merged_children[i]
          IN  child.guid = r /\ child.local_node = l /\ child.remote_node = r
    /\ {l, r} \cap (delete_locally \cup delete_remotely) = {}

(***************************************************************************)
(* C13, as stated.  A local-only child L and a remote-only child R of a    *)
(* folder P that lives on both sides, with equal new content, are merged   *)
(* into one child of the merged P identified by R's guid; L's guid         *)
(* identifies no merged node, structure_counts.dupes is 1 and neither guid *)
(* is in a deletion set.                                                   *)
(***************************************************************************)
C13_Deduped ==
    pc # "new" =>
        \A p \in Guids \cup {RootGuid}, l, r \in Guids :
            ContentMatch(p, l, r) =>
                Deduped(p, l, r) /\ structure_counts.dupes = 1

\* a comes before b in seq.
Before(seq, a, b) == \E i, j \in DOMAIN seq : i < j /\ seq[i] = a /\ seq[j] = b

\* l and r are the first of their content among the children of p: no
\* local child of p that is queued for deduping before l, and no remote
\* child of p before r, has an entry with the same content.
FirstMatch(p, l, r) ==
    /\ \A g \in Range(DupeCandidates(p)) :
          Before(DupeCandidates(p), g, l) =>
              new_local_contents.map[g] # new_local_contents.map[l]
    /\ \A g \in Range(RNode(p).children) :
          (Before(RNode(p).children, g, r) /\ HasContent(new_remote_contents, g)) =>
              new_remote_contents.map[g] # new_remote_contents.map[r]

(***************************************************************************)
(* C13, amended.  When merge() succeeds and the merged tree has a node for *)
(* P, a local-only child L and a remote-only child R of P with equal new   *)
(* content, both syncable, of compatible kinds, and each the first child   *)
(* of P with that content on its side, are merged into one child of the    *)
(* merged P identified by R's guid; L's guid identifies no merged node,    *)
(* neither guid is in a deletion set, and structure_counts.dupes is at     *)
(* least 1, and exactly 1 when L is the only node with new local content.  *)
(***************************************************************************)
C13_FirstMatchDeduped ==
    (pc # "new" /\ merged_root.ok) =>
        \A p \in Guids \cup {RootGuid}, l, r \in Guids :
            (/\ ContentMatch(p, l, r)
             /\ FirstMatch(p, l, r)
             /\ IsSyncable(LNode(l)) /\ IsSyncable(RNode(r))
             /\ HasCompatibleKind(LNode(l), RNode(r))
             /\ Occurrences(p) > 0) =>
                /\ Deduped(p, l, r)
                /\ structure_counts.dupes >= 1
                /\ DOMAIN new_local_contents.map = {l} => structure_counts.dupes = 1

\* Scenario S5 was merged: the pair was deduped in a folder below the root.
C13_Witness ==
    /\ Merged
    /\ \E p, l, r \in Guids :
          /\ ContentMatch(p, l, r)
          /\ FirstMatch(p, l, r)
          /\ Deduped(p, l, r)
          /\ structure_counts.dupes = 1

\* The merged nodes that stand for a local node and a remote node of
\* different guids.
DedupedNodes ==
    {i \in DOMAIN MergedNodes :
        /\ MergedNodes[i].local_node # None
        /\ MergedNodes[i].remote_node # None
        /\ MergedNodes[i].local_node # MergedNodes[i].remote_node}

(***************************************************************************)
(* C14.  After a merge() that returned the merged root,                    *)
(* structure_counts.dupes is the number of merged nodes whose local node   *)
(* and remote node have different guids, and it is 0 when no content       *)
(* indices were supplied.                                                  *)
(***************************************************************************)
C14_DupesCounted ==
    Merged =>
        /\ structure_counts.dupes = Cardinality(DedupedNodes)
        /\ ~new_local_contents.some => structure_counts.dupes = 0

\* A merge deduped a pair when it walked the remote children first: the
\* merged parent of the deduped node is unchanged.
C14_Witness ==
    /\ Merged
    /\ structure_counts.dupes = 1
    /\ \E i \in DedupedNodes, j \in DOMAIN MergedNodes :
          /\ MergedNodes[j].side = Unchanged
          /\ MergedNodes[i].guid \in Range(ChildGuids(MergedNodes[j]))

\* The pairs of incompatible kinds that two_way_merge was called for.
Mismatched ==
    {pair \in traced : ~HasCompatibleKind(LNode(pair[1]), RNode(pair[2]))}

(***************************************************************************)
(* C15.  Whenever the merge reaches a two-way merge of a local node and a  *)
(* remote node of incompatible kinds, however the two were paired,         *)
(* merge() returns MismatchedItemKind(local.kind, remote.kind) for that    *)
(* pair and no merged root.                                                *)
(***************************************************************************)
C15_MismatchedItemKind ==
    \A pair \in Mismatched :
        /\ pc \in {"failed", "iterated"}
        /\ ~merged_root.ok
        /\ merged_root.node = NoNode
        /\ merged_root.err = MismatchedItemKind(LNode(pair[1]).kind,
                                                RNode(pair[2]).kind)

\* A merge failed for an incompatible pair that an orphan relocation
\* reached: the pair has one guid, and its local parent is not syncable.
C15_Witness ==
    /\ pc = "failed"
    /\ \E pair \in Mismatched :
          /\ pair[1] = pair[2]
          /\ LNode(pair[1]).parent # RootGuid
          /\ ~IsSyncable(LNode(LNode(pair[1]).parent))
          /\ RNode(pair[2]).parent = LNode(pair[1]).parent

\* A merge failed for an incompatible pair that deduping formed.
C15_DedupedPair ==
    /\ pc = "failed"
    /\ \E pair \in Mismatched : pair[1] # pair[2]

\* A merge failed for an incompatible pair of one guid below the root.
C15_SameGuid ==
    /\ pc = "failed"
    /\ \E pair \in Mismatched :
          /\ pair[1] = pair[2]
          /\ LNode(pair[1]).parent = RootGuid
          /\ RNode(pair[1]).parent = RootGuid

\* The invalid guids of the live nodes of the two input trees.
InvalidInputGuids ==
    {g \in TreeGuids(local_tree) \cup TreeGuids(remote_tree) : ~Valid(g)}

(***************************************************************************)
(* C16.  With the DefaultDriver, merge() fails with GenerateGuid of an     *)
(* invalid guid whenever an item of either input tree has an invalid guid. *)
(***************************************************************************)
C16_InvalidGuidFails ==
    (pc # "new" /\ driver = DefaultDriver /\ InvalidInputGuids # {}) =>
        /\ ~merged_root.ok
        /\ merged_root.err.kind = "GenerateGuid"
        /\ merged_root.err.a \in InvalidInputGuids

\* The merged nodes that stand for the local node `local` and the remote
\* node `remote` (None for a side that has no node).
MergedFor(local, remote) ==
    {i \in DOMAIN MergedNodes :
        /\ MergedNodes[i].local_node = local
        /\ MergedNodes[i].remote_node = remote}

\* g is the invalid guid of a syncable node that only the given tree has,
\* with no tombstone on the other side.
OnlyIn(tree, other, g) ==
    /\ ~Valid(g)
    /\ HasNode(tree, g) /\ ~HasNode(other, g) /\ ~IsDeleted(other, g)
    /\ IsSyncable(NodeForGuid(tree, g))

(***************************************************************************)
(* C17.  After a merge() that returned the merged root, a node that only   *)
(* one side has and whose guid G is invalid is merged once, under the guid *)
(* N that the driver returned for G, and G and N are in merged_guids.      *)
(* When N differs from G and the node is remote, G is in delete_remotely   *)
(* and deletions() yields it with should_upload_tombstone = true; when the *)
(* node is local, G is in neither deletion set.  When the driver returned  *)
(* G itself, G is in neither deletion set.                                 *)
(***************************************************************************)
C17_DriverGuid ==
    Merged =>
        \A g \in InvalidInputGuids :
            /\ OnlyIn(local_tree, remote_tree, g) =>
                  /\ Cardinality(MergedFor(g, None)) = 1
                  /\ \A i \in MergedFor(g, None) :
                        MergedNodes[i].guid = driver[g]
                  /\ {g, driver[g]} \subseteq merged_guids
                  /\ g \notin delete_locally \cup delete_remotely
            /\ OnlyIn(remote_tree, local_tree, g) =>
                  /\ Cardinality(MergedFor(None, g)) = 1
                  /\ \A i \in MergedFor(None, g) :
                        MergedNodes[i].guid = driver[g]
                  /\ {g, driver[g]} \subseteq merged_guids
                  /\ g \notin delete_locally
                  /\ g \in delete_remotely <=> driver[g] # g
                  /\ (Iterated /\ driver[g] # g) =>
                        /\ Cardinality(Yielded(g)) = 1
                        /\ \A i \in Yielded(g) : emitted[i].should_upload_tombstone

\* deletions() yielded the tombstone of a remote node whose guid the driver
\* replaced, next to a local node whose guid the driver replaced.
C17_Witness ==
    /\ Merged /\ Iterated
    /\ \E g, h \in InvalidInputGuids :
          /\ OnlyIn(remote_tree, local_tree, g)
          /\ OnlyIn(local_tree, remote_tree, h)
          /\ driver[g] \in FreshGuids
          /\ driver[h] \in FreshGuids
          /\ Yielded(g) # {}

\* The merged nodes below the root that stand for a node that is not
\* syncable on its side.
MergedNotSyncable ==
    {i \in DOMAIN MergedNodes :
        /\ i > 1
        /\ \/ /\ MergedNodes[i].local_node # None
              /\ ~IsSyncable(LNode(MergedNodes[i].local_node))
           \/ /\ MergedNodes[i].remote_node # None
              /\ ~IsSyncable(RNode(MergedNodes[i].remote_node))}

(***************************************************************************)
(* C18.  Every node of the merged tree other than the root is syncable:    *)
(* its local node and its remote node, when present, are both syncable.    *)
(***************************************************************************)
C18_MergedSyncable ==
    Merged => MergedNotSyncable = {}

\* The merged nodes with the merge state Unchanged, not Unchanged with new
\* structure.
PlainUnchanged ==
    {i \in DOMAIN MergedNodes :
        MergedNodes[i].side = Unchanged /\ ~MergedNodes[i].new_structure}

\* The merged children of the node are the children of its local node or
\* the children of its remote node: the same guids in the same order.
ChildrenOfOneSide(node) ==
    \/ ChildGuids(node) = LNode(node.local_node).children
    \/ ChildGuids(node) = RNode(node.remote_node).children

(***************************************************************************)
(* C19, as stated.  Every merged node whose merge state is Unchanged       *)
(* (without new structure) has as merged children exactly the children of  *)
(* one side's node, the same guids in the same order, and every node       *)
(* below it is Unchanged (without new structure) too.                      *)
(***************************************************************************)
C19_UnchangedSubtree ==
    Merged =>
        \A i \in PlainUnchanged :
            /\ ChildrenOfOneSide(MergedNodes[i])
            /\ \A k \in DOMAIN Descendants(MergedNodes[i]) :
                  LET below == Descendants(MergedNodes[i])[k]
                  IN  below.side = Unchanged /\ ~below.new_structure

\* The merged tree as the parent of each merged node below the root.
RECURSIVE ParentPairs(_)
ParentPairs(node) ==
    {<<node.merged_children[k].guid, node.guid>> : k \in DOMAIN node.merged_children}
    \cup UNION {ParentPairs(node.merged_children[k]) : k \in DOMAIN node.merged_children}

\* The counters of a merge of the same trees exchanged.
Exchanged(counts) ==
    [remote_revives |-> counts.local_revives,
     local_deletes |-> counts.remote_deletes,
     local_revives |-> counts.remote_revives,
     remote_deletes |-> counts.local_deletes,
     dupes |-> counts.dupes]

\* The merge of the trees exchanged gave the merged tree of the first
\* merge, node by node under the same parent, the deletion sets of the
\* first merge exchanged, and its counters exchanged.
SameAfterSwap ==
    /\ merged_root.ok
    /\ ParentPairs(merged_root.node) = ParentPairs(first_merge.merged_root.node)
    /\ delete_locally = first_merge.delete_remotely
    /\ delete_remotely = first_merge.delete_locally
    /\ structure_counts = Exchanged(first_merge.structure_counts)

\* The second merger has merged.
Swapped == first_merge.some /\ pc # "new"

Decided(x) ==
    LET lp == LNode(x).parent
        rp == RNode(x).parent
    IN  \/ lp = rp
        \/ LNode(lp).needs_merge # RNode(rp).needs_merge
        \/ /\ LNode(lp).needs_merge /\ RNode(rp).needs_merge
           /\ Min(LNode(x).age, LNode(lp).age) # Min(RNode(x).age, RNode(rp).age)

\* The guids below the root that live in both trees.
OnBothSides == Live(local_tree.nodes) \cap Live(remote_tree.nodes)

\* The merged parent of x in the merged tree below root.
MergedParent(root, x) ==
    CHOOSE parent \in Guids \cup {RootGuid} : <<x, parent>> \in ParentPairs(root)

MergedUnder(side, parent, x) ==
    \E i \in DOMAIN MergedNodes :
        /\ IF side = Local THEN MergedNodes[i].local_node = parent
           ELSE MergedNodes[i].remote_node = parent
        /\ \E j \in DOMAIN MergedNodes[i].merged_children :
              LET child == MergedNodes[i].merged_children[j]
              IN  child.local_node = x \/ child.remote_node = x

(***************************************************************************)
(* C21.  Every child that the walk kept for its parent on the other side   *)
(* (merge_local_child_into_merged_node when the structure conflict         *)
(* resolved to Remote or Unchanged, merge_remote_child_into_merged_node    *)
(* when it resolved to Local) is, after a successful merge(), a merged     *)
(* child of the merged node of that parent.                                *)
(***************************************************************************)
C21_DeferredMerged ==
    Merged =>
        \A d \in deferred :
            IF d[1] = Remote
            THEN MergedUnder(Remote, RNode(d[2]).parent, d[2])
            ELSE MergedUnder(Local, LNode(d[2]).parent, d[2])

\* The leaves of tree that changed and are syncable there, and that the
\* other tree holds a tombstone for and no node.
EditedAndDeleted(tree, other) ==
    {g \in Live(tree.nodes) :
        /\ IsSyncable(NodeForGuid(tree, g))
        /\ ~IsFolder(NodeForGuid(tree, g))
        /\ NodeForGuid(tree, g).needs_merge
        /\ IsDeleted(other, g)
        /\ ~HasNode(other, g)}

(***************************************************************************)
(* C22.  After a successful merge(), every changed syncable leaf of one    *)
(* tree that the other tree has a tombstone for is in the merged tree and  *)
(* in neither deletion set, and remote_revives (local_revives) counts      *)
(* each such remote (local) leaf once.                                     *)
(***************************************************************************)
C22_LeafRevived ==
    Merged =>
        /\ \A g \in EditedAndDeleted(remote_tree, local_tree)
                    \cup EditedAndDeleted(local_tree, remote_tree) :
              /\ g \in MergedTreeGuids
              /\ g \notin delete_locally
              /\ g \notin delete_remotely
        /\ structure_counts.remote_revives
              = Cardinality(EditedAndDeleted(remote_tree, local_tree))
        /\ structure_counts.local_revives
              = Cardinality(EditedAndDeleted(local_tree, remote_tree))

\* The folders of tree that the other tree holds a tombstone for.
DeletedFolders(tree, other) ==
    {g \in Live(tree.nodes) :
        IsFolder(NodeForGuid(tree, g)) /\ IsDeleted(other, g)}

ChangedIn(tree, guids) == {g \in guids : NodeForGuid(tree, g).needs_merge}

(***************************************************************************)
(* C23.  After a successful merge(), no folder of one tree that the other  *)
(* tree has a tombstone for is in the merged tree; a remote one is in      *)
(* delete_remotely and a local one in delete_locally; and local_deletes    *)
(* (remote_deletes) counts the changed remote (local) ones, each once.     *)
(***************************************************************************)
C23_FolderDeleted ==
    Merged =>
        /\ \A g \in DeletedFolders(remote_tree, local_tree) :
              g \notin MergedTreeGuids /\ g \in delete_remotely
        /\ \A g \in DeletedFolders(local_tree, remote_tree) :
              g \notin MergedTreeGuids /\ g \in delete_locally
        /\ structure_counts.local_deletes =
              Cardinality(ChangedIn(remote_tree,
                                    DeletedFolders(remote_tree, local_tree)))
        /\ structure_counts.remote_deletes =
              Cardinality(ChangedIn(local_tree,
                                    DeletedFolders(local_tree, remote_tree)))

\* The tree of a side, and the set of guids the merge deletes on that side.
TreeOf(side) == IF side = Local THEN local_tree ELSE remote_tree
DeletedOn(side) == IF side = Local THEN delete_locally ELSE delete_remotely

\* What the structure-change detector of a side answers for the child x of
\* the folder f of that side.
Classified(side, f, x) ==
    IF side = Local
    THEN CheckForRemoteStructureChangeOfLocalNode(NewMerger, f, x).change
    ELSE CheckForLocalStructureChangeOfRemoteNode(NewMerger, f, x).change

\* The closest ancestor of guid in the tree of side that the merge does not
\* delete on that side.
RECURSIVE ClosestSurvivor(_, _)
ClosestSurvivor(side, guid) ==
    LET parent == NodeForGuid(TreeOf(side), guid).parent
    IN  IF parent = RootGuid \/ parent \notin DeletedOn(side) THEN parent
        ELSE ClosestSurvivor(side, parent)

\* x is a merged child of the merged node of parent (a node of the tree of
\* side), and both merged nodes carry new_structure.
RelocatedUnder(side, parent, x) ==
    \E i \in DOMAIN MergedNodes :
        /\ IF side = Local THEN MergedNodes[i].local_node = parent
           ELSE MergedNodes[i].remote_node = parent
        /\ MergedNodes[i].new_structure
        /\ \E j \in DOMAIN MergedNodes[i].merged_children :
              LET child == MergedNodes[i].merged_children[j]
              IN  /\ IF side = Local THEN child.local_node = x
                     ELSE child.remote_node = x
                  /\ child.new_structure

\* The children of the folders of side that the merge deletes on that side,
\* that the detector of that side classifies Unchanged.
Orphans(side) ==
    {x \in Live(TreeOf(side).nodes) :
        LET f == NodeForGuid(TreeOf(side), x).parent
        IN  /\ f # RootGuid
            /\ f \in DeletedOn(side)
            /\ Classified(side, f, x) = "Unchanged"}

(***************************************************************************)
(* C24.  After a successful merge(), every child of a deleted folder of    *)
(* one side that the detector of that side classifies Unchanged is a       *)
(* merged child of the merged node of its closest surviving ancestor on    *)
(* that side, and both carry new_structure.                                *)
(***************************************************************************)
C24_OrphansRelocated ==
    Merged =>
        \A side \in {Local, Remote} :
            \A x \in Orphans(side) :
                RelocatedUnder(side, ClosestSurvivor(side, x), x)

\* The guids that both trees hold, and those of them below the root.
Shared == TreeGuids(local_tree) \cap TreeGuids(remote_tree)
SharedChildren == Shared \ {RootGuid}

\* The merged nodes of the nodes that both trees hold.
TwoWayMerged ==
    {i \in DOMAIN MergedNodes :
        MergedNodes[i].local_node # None /\ MergedNodes[i].remote_node # None}

\* The value table of the conflict resolvers, row by row, for the local
\* node l and the remote node r: v is <<item side, children side>>.
ValueRows(l, r, v) ==
    /\ IsRoot(r) => v = <<Local, Local>>
    /\ ~IsRoot(r) =>
        /\ (l.needs_merge /\ r.needs_merge /\ Diverged(l) /\ ~Diverged(r))
              => v = <<Remote, Remote>>
        /\ (l.needs_merge /\ r.needs_merge /\ ~Diverged(l) /\ Diverged(r))
              => v = <<Local, Local>>
        /\ (l.needs_merge /\ r.needs_merge /\ Diverged(l) = Diverged(r)) =>
              /\ l.age < r.age => v = <<Local, Local>>
              /\ (l.age >= r.age /\ IsUserContentRoot(r)) => v = <<Local, Remote>>
              /\ (l.age >= r.age /\ ~IsUserContentRoot(r)) => v = <<Remote, Remote>>
        /\ (l.needs_merge /\ ~r.needs_merge) => v = <<Local, Local>>
        /\ (~l.needs_merge /\ r.needs_merge /\ IsUserContentRoot(r))
              => v = <<Local, Remote>>
        /\ (~l.needs_merge /\ r.needs_merge /\ ~IsUserContentRoot(r))
              => v = <<Remote, Remote>>
        /\ (~l.needs_merge /\ ~r.needs_merge) => v = <<Unchanged, Unchanged>>

\* The structure table, row by row, for the parents lp and rp of the child
\* on its two sides lc and rc.
StructureRows(lp, lc, rp, rc, v) ==
    /\ IsUserContentRoot(rc) => v = Local
    /\ ~IsUserContentRoot(rc) =>
        /\ (lp.needs_merge /\ rp.needs_merge /\ Diverged(lp) /\ ~Diverged(rp))
              => v = Remote
        /\ (lp.needs_merge /\ rp.needs_merge /\ ~Diverged(lp) /\ Diverged(rp))
              => v = Local
        /\ (lp.needs_merge /\ rp.needs_merge /\ Diverged(lp) = Diverged(rp)) =>
              /\ Min(lc.age, lp.age) < Min(rc.age, rp.age) => v = Local
              /\ Min(lc.age, lp.age) >= Min(rc.age, rp.age) => v = Remote
        /\ (lp.needs_merge /\ ~rp.needs_merge) => v = Local
        /\ (~lp.needs_merge /\ rp.needs_merge) => v = Remote
        /\ (~lp.needs_merge /\ ~rp.needs_merge) => v = Unchanged

(***************************************************************************)
(* C25.  For every node that both trees hold, resolve_value_conflict       *)
(* answers what the value table says and resolve_structure_conflict, for   *)
(* the node and its two parents, what the structure table says; and after  *)
(* a successful merge() the merge state of every two-way merged node is    *)
(* the item side of the value table.                                       *)
(***************************************************************************)
C25_ResolversFollowTables ==
    /\ \A g \in Shared :
          ValueRows(LNode(g), RNode(g), ResolveValueConflict(LNode(g), RNode(g)))
    /\ \A g \in SharedChildren :
          StructureRows(LNode(LNode(g).parent), LNode(g),
                        RNode(RNode(g).parent), RNode(g),
                        ResolveStructureConflict(LNode(LNode(g).parent), LNode(g),
                                                 RNode(RNode(g).parent), RNode(g)))
    /\ Merged =>
          \A i \in TwoWayMerged :
              LET n == MergedNodes[i]
              IN  \E v \in {Local, Remote, Unchanged} \X {Local, Remote, Unchanged} :
                      /\ ValueRows(LNode(n.local_node), RNode(n.remote_node), v)
                      /\ n.side = v[1]

\* A merge in which a node changed on both sides at the same age went to
\* the remote side, and its child, whose parents changed at the same age,
\* was kept in the remote parent's order.
C25_Witness ==
    /\ Merged
    /\ \E i \in TwoWayMerged :
          LET n == MergedNodes[i]
              l == LNode(n.local_node)
              r == RNode(n.remote_node)
          IN  /\ ~IsRoot(r)
              /\ l.needs_merge /\ r.needs_merge
              /\ Diverged(l) = Diverged(r)
              /\ l.age = r.age
              /\ n.side = Remote
              /\ \E j \in DOMAIN n.merged_children :
                    LET lc == LNode(n.merged_children[j].local_node)
                        rc == RNode(n.merged_children[j].remote_node)
                    IN  /\ ~IsUserContentRoot(rc)
                        /\ Min(lc.age, l.age) = Min(rc.age, r.age)
                        /\ ResolveStructureConflict(l, lc, r, rc) = Remote

\* A merger in the middle of a walk, building the merged node of the folder
\* p that both trees hold or only one does.
Building(p) ==
    [NewMerger EXCEPT !.merged_guids = {p},
                      !.mn = MergedNode(p, Unchanged,
                                        IF HasNode(local_tree, p) THEN p ELSE None,
                                        IF HasNode(remote_tree, p) THEN p ELSE None)]

\* The argument `local_parent_node` or `remote_parent_node` for the folder
\* p of the other side: p's node in tree if it has one.
OptionalNode(tree, p) == IF HasNode(tree, p) THEN p ELSE None

\* The children of the folders of tree, each with its parent.
ChildrenIn(tree) ==
    {<<NodeForGuid(tree, x).parent, x>> : x \in Live(tree.nodes)}

(***************************************************************************)
(* C26.  For every remote child that the detector classifies Deleted,      *)
(* merge_remote_child_into_merged_node leaves the merged parent with       *)
(* new_structure, and after a successful merge() the merged node of its    *)
(* remote parent carries new_structure.  For every local child that the    *)
(* detector classifies Deleted, merge_local_child_into_merged_node leaves  *)
(* the merged parent as it was when it relocated no orphan.                *)
(***************************************************************************)
C26_ParentMarking ==
    /\ \A px \in ChildrenIn(remote_tree) :
          Classified(Remote, px[1], px[2]) = "Deleted" =>
              /\ MergeRemoteChildIntoMergedNode(
                     Building(px[1]), OptionalNode(local_tree, px[1]),
                     px[1], px[2]).mn.new_structure
              /\ Merged =>
                    \A i \in DOMAIN MergedNodes :
                        MergedNodes[i].remote_node = px[1]
                            => MergedNodes[i].new_structure
    /\ \A px \in ChildrenIn(local_tree) :
          Classified(Local, px[1], px[2]) = "Deleted" =>
              LET before == Building(px[1])
                  after == MergeLocalChildIntoMergedNode(
                               before, px[1],
                               OptionalNode(remote_tree, px[1]), px[2])
              IN  after.relocated = {} => after.mn = before.mn

\* A merge that deleted a child of a remote folder, whose merged node it
\* flagged, and a child of a local folder, whose merged node it left
\* without new_structure.
C26_Witness ==
    /\ Merged
    /\ \E px \in ChildrenIn(remote_tree) :
          /\ Classified(Remote, px[1], px[2]) = "Deleted"
          /\ \E i \in DOMAIN MergedNodes :
                MergedNodes[i].remote_node = px[1] /\ MergedNodes[i].new_structure
    /\ \E px \in ChildrenIn(local_tree) :
          /\ Classified(Local, px[1], px[2]) = "Deleted"
          /\ px[2] \in delete_locally
          /\ \E i \in DOMAIN MergedNodes :
                MergedNodes[i].local_node = px[1] /\ ~MergedNodes[i].new_structure

\* The tombstones of tree.
Tombstones(tree) == tree.deleted

\* tree has neither a node nor a tombstone for guid.
Unknown(tree, guid) == ~HasNode(tree, guid) /\ ~IsDeleted(tree, guid)

\* The guids that both trees have a tombstone for and no node.
DeletedOnBothSides ==
    {g \in Tombstones(local_tree) \cap Tombstones(remote_tree) :
        ~HasNode(local_tree, g) /\ ~HasNode(remote_tree, g)}

\* The positions at which deletions() yielded guid.
EmittedFor(guid) == {i \in DOMAIN emitted : emitted[i].guid = guid}

(***************************************************************************)
(* C27.  After a successful merge() every tombstone of either tree is      *)
(* mentioned; a local tombstone for a guid the remote tree does not know   *)
(* is in delete_remotely, a remote tombstone for a guid the local tree     *)
(* does not know is in delete_locally, and a guid with a tombstone on both *)
(* sides and a node on neither is in delete_remotely and not in            *)
(* delete_locally, and deletions() yields it once, with                    *)
(* should_upload_tombstone.  After a failed merge() no such guid is in a   *)
(* deletion set.                                                           *)
(***************************************************************************)
C27_Finalizer ==
    /\ Merged =>
        /\ \A g \in Tombstones(local_tree) \cup Tombstones(remote_tree) :
              g \in merged_guids \cup delete_locally \cup delete_remotely
        /\ \A g \in Tombstones(local_tree) :
              Unknown(remote_tree, g) => g \in delete_remotely
        /\ \A g \in Tombstones(remote_tree) :
              Unknown(local_tree, g) => g \in delete_locally
        /\ \A g \in DeletedOnBothSides :
              /\ g \in delete_remotely
              /\ g \notin delete_locally
              /\ pc = "iterated" =>
                    /\ Cardinality(EmittedFor(g)) = 1
                    /\ \A i \in EmittedFor(g) : emitted[i].should_upload_tombstone
    /\ (pc \in {"failed", "iterated"} /\ ~merged_root.ok) =>
          \A g \in Tombstones(local_tree) \cup Tombstones(remote_tree) :
              (~HasNode(local_tree, g) /\ ~HasNode(remote_tree, g))
                  => g \notin delete_locally \cup delete_remotely

\* deletions() after a successful merge of trees with a tombstone on both
\* sides, one on the local side only and one on the remote side only.
C27_Witness ==
    /\ pc = "iterated" /\ merged_root.ok
    /\ \E g \in DeletedOnBothSides :
          \E i \in DOMAIN emitted : emitted[i] = Deletion(g, TRUE)
    /\ \E g \in Tombstones(local_tree) :
          Unknown(remote_tree, g) /\ g \in delete_remotely
    /\ \E g \in Tombstones(remote_tree) :
          Unknown(local_tree, g) /\ g \in delete_locally

(***************************************************************************)
(* C28.  After a successful merge(), no two-way merged node whose remote   *)
(* node is a user content root has the merge state Remote.                 *)
(***************************************************************************)
C28_UserContentRootNotRemote ==
    Merged =>
        \A i \in TwoWayMerged :
            IsUserContentRoot(RNode(MergedNodes[i].remote_node))
                => MergedNodes[i].side \in {Local, Unchanged}

\* guid is a node that is not syncable in one of the trees.
NotSyncableSomewhere(guid) ==
    \/ HasNode(local_tree, guid) /\ ~IsSyncable(LNode(guid))
    \/ HasNode(remote_tree, guid) /\ ~IsSyncable(RNode(guid))

\* guid is an invalid guid of a remote node that the driver replaced.
ReplacedRemoteGuid(guid) ==
    /\ ~Valid(guid)
    /\ HasNode(remote_tree, guid)
    /\ driver[guid] \notin {Fail, guid}

(***************************************************************************)
(* C29.  After merge(), every guid in delete_locally has a remote          *)
(* tombstone or is a node that is not syncable on one side; every guid in  *)
(* delete_remotely has a local tombstone, or is a node that is not         *)
(* syncable on one side, or is an invalid guid of a remote node that the   *)
(* driver replaced.                                                        *)
(***************************************************************************)
C29_NoSpuriousDeletions ==
    pc # "new" =>
        /\ \A g \in delete_locally :
              IsDeleted(remote_tree, g) \/ NotSyncableSomewhere(g)
        /\ \A g \in delete_remotely :
              \/ IsDeleted(local_tree, g)
              \/ NotSyncableSomewhere(g)
              \/ ReplacedRemoteGuid(g)

\* A merge that deleted remotely a syncable node with a local tombstone
\* and locally a node that is not syncable.
C29_Witness ==
    /\ Merged
    /\ \E g \in delete_remotely :
          IsDeleted(local_tree, g) /\ HasNode(remote_tree, g) /\ IsSyncable(RNode(g))
    /\ \E g \in delete_locally : NotSyncableSomewhere(g)

\* The driver returns a valid guid for every invalid guid.
DriverReturnsValidGuids ==
    \A g \in InvalidGuids : driver[g] # Fail /\ Valid(driver[g])

(***************************************************************************)
(* C30.  After a successful merge() with a driver that returns a valid     *)
(* guid for every invalid guid, every guid of the merged tree is valid.    *)
(***************************************************************************)
C30_MergedGuidsValid ==
    (Merged /\ DriverReturnsValidGuids) =>
        \A g \in MergedTreeGuids : Valid(g)

====
